---------------------------- MODULE Spec2Model ----------------------------
(***************************************************************************)
(* Model of the DOFT Study 04 core: the prime-vector normalizer, the       *)
(* topology catalog loader, the simple and the resonant cost engines,      *)
(* Cliff's delta, the cross-validated classifier, the block statistics,    *)
(* the two null models, the per-element aggregation and the runners that   *)
(* call them.                                                              *)
(*                                                                         *)
(* Floating-point numbers are modelled as exact rationals extended with    *)
(* NaN and the two infinities, with the IEEE rules for comparison and      *)
(* arithmetic on the special values (every comparison with NaN is false,   *)
(* inf/inf = NaN, ...).  Rounding is not modelled.                         *)
(***************************************************************************)
EXTENDS Integers, Sequences, FiniteSets

VARIABLES
    pc,            \* position of the run
    row,           \* normalize_primes: the four raw <prefix>_<p>_mean values
    vec,           \* normalize_primes: the returned vector
    data,          \* load_topology_catalog: the parsed JSON entries
    catalog,       \* the loaded List[Topology]
    carrier_df,    \* the per-element aggregate table (sequence of rows)
    lambda_noise,  \* aggregate_costs: weight of the noise term
    params,        \* infer_topologies: HyperParams
    scores,        \* the score table (sequence of records)
    best,          \* the best-assignment table (sequence of records)
    use_noise,     \* aggregate_costs: whether the noise term is used
    x, y,          \* cliffs_delta: the two value arrays
    delta,         \* cliffs_delta: the returned value
    args,          \* the parsed command-line arguments of a runner
    outputs,       \* the names of the files written so far
    X, labels,     \* evaluate_classifier: feature matrix and block labels
    cv,            \* evaluate_classifier: the cross-validation scheme built
    clf,           \* evaluate_classifier: the returned ClassifierResult
    agg_df,        \* the per-element table given to the null models
    perm_nulls,    \* the results of run_permutation_nulls, one per call
    rot_nulls,     \* the results of run_rotation_nulls, one per call
    stats_json,    \* run_study04_periodic_map.py: the serialised block statistics
    loop,          \* the locals of the null runner that is executing
    materials,     \* the material-level table
    agg_result,    \* aggregate_element_table: the AggregationResult
    carrier_stats, \* prep_study04_layer_data.py: the carrier table written
    runner,        \* the topology-inference runner that is running
    agg_path       \* whether carrier_aggregate_stats.csv exists on disk

vars == <<pc, row, vec, data, catalog, carrier_df, lambda_noise, params,
          scores, best, use_noise, x, y, delta, args, outputs, X, labels, cv,
          clf, agg_df, perm_nulls, rot_nulls, stats_json, loop, materials,
          agg_result, carrier_stats, runner, agg_path>>

-----------------------------------------------------------------------------
(* Extended rationals standing for Python / numpy float64 values.           *)

RECURSIVE Gcd(_, _)
Gcd(a, b) == IF b = 0 THEN a ELSE Gcd(b, a % b)

AbsInt(i) == IF i < 0 THEN -i ELSE i

NaN == [k |-> "nan", n |-> 0, d |-> 1]
PosInf == [k |-> "inf", n |-> 1, d |-> 1]
NegInf == [k |-> "inf", n |-> -1, d |-> 1]

\* The rational n/d (d # 0) in lowest terms with a positive denominator.
Q(n, d) ==
    LET g == Gcd(AbsInt(n), AbsInt(d))
        s == IF d < 0 THEN -1 ELSE 1
    IN  [k |-> "num", n |-> (s * n) \div g, d |-> (s * d) \div g]

I(i) == [k |-> "num", n |-> i, d |-> 1]
Zero == I(0)
One == I(1)

IsNaN(a) == a.k = "nan"
IsNum(a) == a.k = "num"
IsInf(a) == a.k = "inf"
SignOf(a) == IF a.n > 0 THEN 1 ELSE IF a.n < 0 THEN -1 ELSE 0
InfOf(s) == IF s > 0 THEN PosInf ELSE NegInf

\* IEEE comparisons: every comparison with NaN is false.
FLt(a, b) ==
    /\ ~IsNaN(a) /\ ~IsNaN(b)
    /\ IF IsNum(a) /\ IsNum(b) THEN a.n * b.d < b.n * a.d
       ELSE IF IsInf(a) /\ IsInf(b) THEN a.n < b.n
       ELSE IF IsInf(a) THEN a.n < 0
       ELSE b.n > 0
FEq(a, b) ==
    /\ ~IsNaN(a) /\ ~IsNaN(b)
    /\ a = b
FLe(a, b) == FLt(a, b) \/ FEq(a, b)
FGt(a, b) == FLt(b, a)
FGe(a, b) == FLe(b, a)

FNeg(a) == IF IsNaN(a) THEN NaN ELSE [a EXCEPT !.n = -a.n]
FAbs(a) == IF IsNaN(a) THEN NaN ELSE [a EXCEPT !.n = AbsInt(a.n)]

FAdd(a, b) ==
    IF IsNaN(a) \/ IsNaN(b) THEN NaN
    ELSE IF IsNum(a) /\ IsNum(b) THEN Q(a.n * b.d + b.n * a.d, a.d * b.d)
    ELSE IF IsInf(a) /\ IsInf(b) THEN (IF a.n = b.n THEN a ELSE NaN)
    ELSE IF IsInf(a) THEN a
    ELSE b
FSub(a, b) == FAdd(a, FNeg(b))

FMul(a, b) ==
    IF IsNaN(a) \/ IsNaN(b) THEN NaN
    ELSE IF IsNum(a) /\ IsNum(b) THEN Q(a.n * b.n, a.d * b.d)
    ELSE IF SignOf(a) = 0 \/ SignOf(b) = 0 THEN NaN
    ELSE InfOf(SignOf(a) * SignOf(b))

\* numpy / float division; x/0 follows numpy (inf or NaN), the Python-float
\* divisions of the source are all guarded against a zero divisor.
FDiv(a, b) ==
    IF IsNaN(a) \/ IsNaN(b) THEN NaN
    ELSE IF IsNum(a) /\ IsNum(b) THEN
        (IF b.n = 0 THEN (IF a.n = 0 THEN NaN ELSE InfOf(SignOf(a)))
         ELSE Q(a.n * b.d, a.d * b.n))
    ELSE IF IsInf(a) /\ IsInf(b) THEN NaN
    ELSE IF IsInf(a) THEN InfOf(SignOf(a) * (IF SignOf(b) < 0 THEN -1 ELSE 1))
    ELSE Zero

FSq(a) == FMul(a, a)

\* Python's max(a, b): the first argument unless the second is greater.
PyMax(a, b) == IF FGt(b, a) THEN b ELSE a

\* np.clip(v, lo, hi) = minimum(maximum(v, lo), hi); NaN propagates.
NpClip(v, lo, hi) ==
    IF IsNaN(v) THEN NaN
    ELSE IF FLt(v, lo) THEN lo
    ELSE IF FGt(v, hi) THEN hi
    ELSE v

\* np.sum over the components of a vector (a function on 1..n or a sequence).
RECURSIVE SumTo(_, _)
SumTo(v, n) == IF n = 0 THEN Zero ELSE FAdd(SumTo(v, n - 1), v[n])
NpSum(v) == SumTo(v, Len(v))

\* Series.min() / Series.max() of a sequence of non-NaN values; NaN when empty.
RECURSIVE SeriesMin(_)
SeriesMin(s) ==
    IF Len(s) = 0 THEN NaN
    ELSE IF Len(s) = 1 THEN s[1]
    ELSE LET m == SeriesMin(Tail(s)) IN IF FLt(s[1], m) THEN s[1] ELSE m
RECURSIVE SeriesMax(_)
SeriesMax(s) ==
    IF Len(s) = 0 THEN NaN
    ELSE IF Len(s) = 1 THEN s[1]
    ELSE LET m == SeriesMax(Tail(s)) IN IF FGt(s[1], m) THEN s[1] ELSE m

\* Series.dropna()
RECURSIVE DropNa(_)
DropNa(s) ==
    IF Len(s) = 0 THEN <<>>
    ELSE IF IsNaN(s[1]) THEN DropNa(Tail(s))
    ELSE <<s[1]>> \o DropNa(Tail(s))

-----------------------------------------------------------------------------
(* topology_engine.py                                                       *)

PRIME_COLUMNS == 1..4          \* positions of e2, e3, e5, e7
Uniform == [p \in PRIME_COLUMNS |-> Q(1, 4)]

\* normalize_primes without np.abs: the raw values are summed and divided.
normalize_primes_noabs(r) ==
    LET s == SumTo(r, 4)
    IN  IF FLe(s, Zero) THEN Uniform
        ELSE [p \in PRIME_COLUMNS |-> FDiv(r[p], s)]

\* normalize_primes(row, metric_prefix="abs"): r is the vector of the row's
\* abs_<p>_mean values.
\* vec = np.abs(vec); s = vec.sum(); uniform if s <= 0 else vec / s
normalize_primes(r) ==
    LET a == [p \in PRIME_COLUMNS |-> FAbs(r[p])]
        s == SumTo(a, 4)
    IN  IF FLe(s, Zero) THEN Uniform
        ELSE [p \in PRIME_COLUMNS |-> FDiv(a[p], s)]

\* The loader without np.abs.
LoadWeights_noabs(entry) ==
    LET s == SumTo(entry.w, 4)
    IN  IF FLe(s, Zero) THEN Uniform
        ELSE [p \in PRIME_COLUMNS |-> FDiv(entry.w[p], s)]

\* The loader with the guard s < 0 instead of s <= 0.
LoadWeights_strict(entry) ==
    LET w == [p \in PRIME_COLUMNS |-> FAbs(entry.w[p])]
        s == SumTo(w, 4)
    IN  IF FLt(s, Zero) THEN Uniform
        ELSE [p \in PRIME_COLUMNS |-> FDiv(w[p], s)]

\* One iteration of the loop of load_topology_catalog: the weights of an entry.
LoadWeights(entry) ==
    LET w == [p \in PRIME_COLUMNS |-> FAbs(entry.w[p])]
        s == SumTo(w, 4)
    IN  IF FLe(s, Zero) THEN Uniform
        ELSE [p \in PRIME_COLUMNS |-> FDiv(w[p], s)]

Topology(entry) ==
    [topology_id |-> entry.topology_id,
     w |-> LoadWeights(entry),
     noise_sensitivity |-> entry.noise_sensitivity]

load_topology_catalog(d) == [i \in 1..Len(d) |-> Topology(d[i])]

\* float(np.linalg.norm(vec - topo.w) ** 2)
compute_ce(v, topo) ==
    SumTo([p \in PRIME_COLUMNS |-> FSq(FSub(v[p], topo.w[p]))], 4)

NoneVal == [k |-> "none", n |-> 0, d |-> 1]
NoneId == "None"
Eps == Q(1, 1000000)           \* the 1e-6 floor of the spans

Column(df, c) == [i \in 1..Len(df) |-> df[i][c]]
Span(vals) == PyMax(FSub(SeriesMax(vals), SeriesMin(vals)), Eps)

\* Q_lock of a row (aggregate_costs, lines 81-85) given delta_min, delta_span
QLockFrom(delta_N, delta_min, delta_span) ==
    IF IsNaN(delta_N) THEN Zero
    ELSE NpClip(FSub(One, FDiv(FSub(delta_N, delta_min), delta_span)), Zero, One)

DeltaVals(df) == DropNa(Column(df, "delta_N_median"))
SimpleQLock(r, df) ==
    QLockFrom(r.delta_N_median, SeriesMin(DeltaVals(df)), Span(DeltaVals(df)))

\* xi_norm of a row (aggregate_costs, lines 86-90) given xi_min, xi_span
XiNormFrom(xi_ext, xi_min, xi_span) ==
    IF IsNaN(xi_ext) THEN Zero
    ELSE NpClip(FDiv(FSub(xi_ext, xi_min), xi_span), Zero, One)

XiVals(df) == DropNa(Column(df, "xi_ext_median"))
SimpleXiNorm(r, df) ==
    XiNormFrom(r.xi_ext_median, SeriesMin(XiVals(df)), Span(XiVals(df)))

\* c_xi and c_total of one (row, topology) pair (lines 99-100).
SimpleCxi(xi_norm, topo, Q_lock, un) ==
    IF un THEN FMul(FMul(xi_norm, topo.noise_sensitivity), FSub(One, Q_lock))
    ELSE Zero
SimpleCtotal(c_e, c_xi, lam, un) ==
    IF un THEN FAdd(c_e, FMul(lam, c_xi)) ELSE c_e

\* The record appended to records (lines 102-114).
SimpleRecord(r, topo, c_e, c_xi, lam, un, Q_lock, xi_norm) ==
    [carrier_element |-> r.carrier_element,
     topology_id |-> topo.topology_id,
     C_e |-> c_e, C_xi |-> c_xi, C_total |-> SimpleCtotal(c_e, c_xi, lam, un),
     Q_lock |-> Q_lock, xi_norm |-> xi_norm]

\* The score record of one (row, topology) pair (lines 98-114); e_norm, Q_lock
\* and xi_norm are those of the row.
SimpleScore(r, topo, lam, un, e_norm, Q_lock, xi_norm) ==
    SimpleRecord(r, topo, compute_ce(e_norm, topo),
                 SimpleCxi(xi_norm, topo, Q_lock, un), lam, un, Q_lock, xi_norm)

SimpleScoresFrom(r, cat, lam, un, e_norm, Q_lock, xi_norm) ==
    [t \in 1..Len(cat) |-> SimpleScore(r, cat[t], lam, un, e_norm, Q_lock, xi_norm)]

\* The score records of a row, in catalog order (lines 77-114).
SimpleScores(r, cat, df, lam, un) ==
    SimpleScoresFrom(r, cat, lam, un, normalize_primes(r.mean),
                     SimpleQLock(r, df), SimpleXiNorm(r, df))

\* The running minimum over C_e (lines 116-118).
SimpleStepE(acc, rec) ==
    IF acc.best_ce = NoneVal \/ FLt(rec.C_e, acc.best_ce)
    THEN [acc EXCEPT !.best_ce = rec.C_e, !.best_topo_e = rec.topology_id]
    ELSE acc

\* The running minimum over C_total (lines 119-121).
SimpleStepTotal(acc, rec) ==
    IF acc.best_total = NoneVal \/ FLt(rec.C_total, acc.best_total)
    THEN [acc EXCEPT !.best_total = rec.C_total,
                     !.best_topo_total = rec.topology_id]
    ELSE acc

SimpleStep(acc, rec) == SimpleStepTotal(SimpleStepE(acc, rec), rec)

RECURSIVE SimpleLoop(_, _)
SimpleLoop(recs, t) ==
    IF t = 0
    THEN [best_ce |-> NoneVal, best_total |-> NoneVal,
          best_topo_e |-> NoneId, best_topo_total |-> NoneId]
    ELSE SimpleStep(SimpleLoop(recs, t - 1), recs[t])

\* The per_carrier_best record of a row (lines 123-138) from the loop's result.
SimpleBestRecord(r, acc, Q_lock, xi_norm) ==
    [carrier_element |-> r.carrier_element,
     Q_lock |-> Q_lock,
     xi_norm |-> xi_norm,
     best_topology_e_only |-> acc.best_topo_e,
     C_e_min |-> acc.best_ce,
     best_topology |-> acc.best_topo_total,
     C_total_min |-> acc.best_total]

SimpleBestFrom(r, recs, df) ==
    SimpleBestRecord(r, SimpleLoop(recs, Len(recs)),
                     SimpleQLock(r, df), SimpleXiNorm(r, df))

SimpleBest(r, cat, df, lam, un) ==
    SimpleBestFrom(r, SimpleScores(r, cat, df, lam, un), df)

RECURSIVE Flatten(_)
Flatten(ss) == IF Len(ss) = 0 THEN <<>> ELSE ss[1] \o Flatten(Tail(ss))

\* aggregate_costs: (scores_df, best_df)
aggregate_costs(df, cat, lam, un) ==
    [scores |-> Flatten([i \in 1..Len(df) |-> SimpleScores(df[i], cat, df, lam, un)]),
     best |-> [i \in 1..Len(df) |-> SimpleBest(df[i], cat, df, lam, un)]]

-----------------------------------------------------------------------------
(* resonant_engine.py                                                       *)

COMPLEXITY(id) ==
    CASE id = "BIN_DIPOLE" -> Q(1, 5)
      [] id = "TRI_RING" -> Q(2, 5)
      [] id = "TETRA_PACK" -> Q(3, 5)
      [] id = "PENTA_FLOWER" -> Q(4, 5)
      [] id = "HEPTA_FLOWER" -> One
      [] OTHER -> One                      \* COMPLEXITY.get(topo_id, 1.0)

N_SCALE(id) ==
    CASE id = "BIN_DIPOLE" -> One
      [] id = "TRI_RING" -> Q(23, 20)
      [] id = "TETRA_PACK" -> Q(13, 10)
      [] id = "PENTA_FLOWER" -> Q(29, 20)
      [] id = "HEPTA_FLOWER" -> Q(8, 5)
      [] OTHER -> One                      \* N_SCALE.get(topo_id, 1.0)

\* HyperParams() defaults
DefaultParams ==
    [sigma_e |-> Q(1, 10), sigma_N |-> One, sigma_xi |-> Q(1, 2),
     lambda_N |-> Q(1, 2), lambda_xi |-> Q(1, 2), xi_env |-> Q(1, 20)]

\* _prime_vector: the median, else the mean, else NaN; absolute values.
prime_vector(r) ==
    [p \in PRIME_COLUMNS |->
        LET val == IF IsNaN(r.median[p]) THEN r.mean[p] ELSE r.median[p]
        IN  IF IsNaN(val) THEN NaN ELSE FAbs(val)]

\* np.sum / np.dot restricted to the observed (mask) components.
RECURSIVE MaskedSum(_, _, _)
MaskedSum(f, mask, n) ==
    IF n = 0 THEN Zero
    ELSE IF mask[n] THEN FAdd(MaskedSum(f, mask, n - 1), f[n])
    ELSE MaskedSum(f, mask, n - 1)

\* mask = ~np.isnan(e_obs)
FitMask(e_obs) == [p \in PRIME_COLUMNS |-> ~IsNaN(e_obs[p])]

\* np.dot(a[mask], b[mask])
MaskedDot(a, b, mask) ==
    MaskedSum([p \in PRIME_COLUMNS |-> IF mask[p] THEN FMul(a[p], b[p]) ELSE Zero],
              mask, 4)

\* A = 0.0 if denom <= 0 else dot(e_m, w_m) / denom   (line 83)
FitA(e_obs, w, mask, denom) ==
    IF FLe(denom, Zero) THEN Zero ELSE FDiv(MaskedDot(e_obs, w, mask), denom)

\* ce = sum(((e_obs[mask] - e_sim[mask]) / sigma_e) ** 2)   (line 85)
FitCe(e_obs, e_sim, sigma_e, mask) ==
    MaskedSum([p \in PRIME_COLUMNS |->
                  IF mask[p] THEN FSq(FDiv(FSub(e_obs[p], e_sim[p]), sigma_e))
                  ELSE Zero], mask, 4)

FitResult(e_obs, A, e_sim, sigma_e, mask) ==
    [A |-> A, ce |-> FitCe(e_obs, e_sim, sigma_e, mask), e_sim |-> e_sim]

FitWithA(e_obs, w, sigma_e, mask, A) ==
    FitResult(e_obs, A, [p \in PRIME_COLUMNS |-> FMul(A, w[p])], sigma_e, mask)

FitWithMask(e_obs, w, sigma_e, mask) ==
    IF \A p \in PRIME_COLUMNS : ~mask[p]
    THEN [A |-> NaN, ce |-> PosInf, e_sim |-> [p \in PRIME_COLUMNS |-> NaN]]
    ELSE FitWithA(e_obs, w, sigma_e, mask,
                  FitA(e_obs, w, mask, MaskedDot(w, w, mask)))

\* _fit_amplitude(e_obs, w, sigma_e) -> (A, ce, e_sim)
fit_amplitude(e_obs, w, sigma_e) == FitWithMask(e_obs, w, sigma_e, FitMask(e_obs))

\* _q_lock(delta_N)
q_lock_of(delta_N) ==
    IF IsNaN(delta_N) THEN Zero ELSE NpClip(FSub(One, delta_N), Zero, One)

\* _xi_sim(q_lock, topo_id, params)
xi_sim_of(q_lock, topo_id, hp) ==
    FAdd(hp.xi_env, FMul(FSub(One, q_lock), COMPLEXITY(topo_id)))

\* _n_sim(N_obs, topo_id): None when N_obs is missing
n_sim_of(N_obs, topo_id) ==
    IF IsNaN(N_obs) THEN NoneVal ELSE FMul(N_obs, N_SCALE(topo_id))

\* C_N (lines 152-154)
CostN(N_obs, N_sim, hp) ==
    IF ~IsNaN(N_obs) /\ N_sim # NoneVal
    THEN FSq(FDiv(FSub(N_obs, N_sim), hp.sigma_N))
    ELSE Zero

\* C_xi (lines 155-158)
CostXi(xi_obs, xi_sim, hp) ==
    IF ~IsNaN(xi_obs) THEN FSq(FDiv(FSub(xi_obs, xi_sim), hp.sigma_xi)) ELSE Zero

\* C_total = C_e + lambda_N * C_N + lambda_xi * C_xi   (line 160)
CostTotal(C_e, C_N, C_xi, hp) ==
    FAdd(FAdd(C_e, FMul(hp.lambda_N, C_N)), FMul(hp.lambda_xi, C_xi))

\* The record appended to score_records (lines 163-179).
ResonantRecord(r, topo, fit, C_N, C_xi, hp, q_lock) ==
    [carrier_element |-> r.carrier_element,
     topology_id |-> topo.topology_id,
     C_e |-> fit.ce, C_N |-> C_N, C_xi |-> C_xi,
     C_total |-> CostTotal(fit.ce, C_N, C_xi, hp),
     A_T |-> fit.A, q_lock |-> q_lock]

\* The score record of one (row, topology) pair (lines 150-179); e_obs and
\* q_lock are those of the row.
ResonantScore(r, topo, hp, e_obs, q_lock) ==
    ResonantRecord(r, topo, fit_amplitude(e_obs, topo.w, hp.sigma_e),
                   CostN(r.N_median, n_sim_of(r.N_median, topo.topology_id), hp),
                   CostXi(r.xi_ext_median, xi_sim_of(q_lock, topo.topology_id, hp), hp),
                   hp, q_lock)

ResonantScoresFrom(r, cat, hp, e_obs, q_lock) ==
    [t \in 1..Len(cat) |-> ResonantScore(r, cat[t], hp, e_obs, q_lock)]

\* The score records of a row, in catalog order (lines 128-179).
ResonantScores(r, cat, hp) ==
    ResonantScoresFrom(r, cat, hp, prime_vector(r), q_lock_of(r.delta_N_median))

\* A loop body that lets a later topology replace an equally good earlier one.
ResonantStep_ties(acc, rec) ==
    IF acc.best_total = NoneVal \/ FLe(rec.C_total, acc.best_total)
    THEN [best_total |-> rec.C_total, best_topo |-> rec.topology_id,
          best_ce |-> rec.C_e, best_cn |-> rec.C_N, best_cxi |-> rec.C_xi,
          best_amp |-> rec.A_T]
    ELSE acc

\* A loop body that keeps the topology seen last.
ResonantStep_last(acc, rec) ==
    [best_total |-> rec.C_total, best_topo |-> rec.topology_id,
     best_ce |-> rec.C_e, best_cn |-> rec.C_N, best_cxi |-> rec.C_xi,
     best_amp |-> rec.A_T]

\* The running minimum of the loop body (lines 181-187).
ResonantStep(acc, rec) ==
    IF acc.best_total = NoneVal \/ FLt(rec.C_total, acc.best_total)
    THEN [best_total |-> rec.C_total, best_topo |-> rec.topology_id,
          best_ce |-> rec.C_e, best_cn |-> rec.C_N, best_cxi |-> rec.C_xi,
          best_amp |-> rec.A_T]
    ELSE acc

RECURSIVE ResonantLoop(_, _)
ResonantLoop(recs, t) ==
    IF t = 0
    THEN [best_total |-> NoneVal, best_topo |-> NoneId, best_ce |-> NoneVal,
          best_cn |-> NoneVal, best_cxi |-> NoneVal, best_amp |-> NoneVal]
    ELSE ResonantStep(ResonantLoop(recs, t - 1), recs[t])

\* max(element_totals): Python's max of a non-empty list, left to right.
RECURSIVE PyMaxList(_, _)
PyMaxList(s, n) == IF n = 1 THEN s[1] ELSE PyMax(PyMaxList(s, n - 1), s[n])

\* max_total (line 189)
MaxTotal(element_totals) ==
    IF Len(element_totals) > 0
    THEN PyMaxList(element_totals, Len(element_totals))
    ELSE PosInf

\* confidence (line 190)
ConfidenceFrom(element_totals, best_total, max_total) ==
    IF Len(element_totals) = 0 \/ FEq(max_total, Zero) THEN Zero
    ELSE FSub(One, FDiv(best_total, max_total))

Confidence(element_totals, best_total) ==
    ConfidenceFrom(element_totals, best_total, MaxTotal(element_totals))

\* xi_min, xi_max of the table (lines 119-121)
ResonantXiMin(xi_vals) == IF Len(xi_vals) > 0 THEN SeriesMin(xi_vals) ELSE Zero
ResonantXiMax(xi_vals) == IF Len(xi_vals) > 0 THEN SeriesMax(xi_vals) ELSE One

\* xi_norm of a row, kept for the plots (lines 123, 136-138).
ResonantXiNormFrom(xi_obs, xi_min, xi_span) ==
    NpClip(IF IsNaN(xi_obs) THEN Zero ELSE FDiv(FSub(xi_obs, xi_min), xi_span),
           Zero, One)

ResonantXiNorm(r, df) ==
    ResonantXiNormFrom(r.xi_ext_median, ResonantXiMin(XiVals(df)),
                       PyMax(FSub(ResonantXiMax(XiVals(df)), ResonantXiMin(XiVals(df))),
                             Eps))

\* The best_records entry of a row (lines 192-213) from the loop's result.
ResonantBestRecord(r, acc, element_totals, xi_norm) ==
    [carrier_element |-> r.carrier_element,
     xi_norm |-> xi_norm,
     Q_lock |-> q_lock_of(r.delta_N_median),
     best_topology |-> acc.best_topo,
     C_total_min |-> acc.best_total,
     C_e_min |-> acc.best_ce,
     C_N_min |-> acc.best_cn,
     C_xi_min |-> acc.best_cxi,
     A_best |-> acc.best_amp,
     confidence |-> Confidence(element_totals, acc.best_total)]

ResonantBestFrom(r, recs, df) ==
    ResonantBestRecord(r, ResonantLoop(recs, Len(recs)),
                       [t \in 1..Len(recs) |-> recs[t].C_total],
                       ResonantXiNorm(r, df))

ResonantBest(r, cat, hp, df) == ResonantBestFrom(r, ResonantScores(r, cat, hp), df)

\* infer_topologies on a non-empty table: InferenceResult(scores, summary)
infer_topologies(df, cat, hp) ==
    [scores |-> Flatten([i \in 1..Len(df) |-> ResonantScores(df[i], cat, hp)]),
     best |-> [i \in 1..Len(df) |-> ResonantBest(df[i], cat, hp, df)]]

-----------------------------------------------------------------------------
(* analysis.py                                                              *)

\* A sign that counts a tie as +1.
NpSign_ties(a, b) == IF a >= b THEN 1 ELSE -1

\* np.sign of a difference of two finite values
NpSign(a, b) == IF a > b THEN 1 ELSE IF a < b THEN -1 ELSE 0

\* comparisons.sum(): the sum of the n1 x n2 matrix of signs, row by row
RECURSIVE SignRowSum(_, _, _)
SignRowSum(xi, ys, j) ==
    IF j = 0 THEN 0 ELSE SignRowSum(xi, ys, j - 1) + NpSign(xi, ys[j])
RECURSIVE SignMatrixSum(_, _, _)
SignMatrixSum(xs, ys, i) ==
    IF i = 0 THEN 0
    ELSE SignMatrixSum(xs, ys, i - 1) + SignRowSum(xs[i], ys, Len(ys))

\* cliffs_delta dividing by n1 * n1.
cliffs_delta_n1(xs, ys) ==
    IF Len(xs) = 0 \/ Len(ys) = 0 THEN NaN
    ELSE Q(SignMatrixSum(xs, ys, Len(xs)), Len(xs) * Len(xs))

\* cliffs_delta(x, y): NaN when either array is empty
cliffs_delta(xs, ys) ==
    IF Len(xs) = 0 \/ Len(ys) = 0 THEN NaN
    ELSE Q(SignMatrixSum(xs, ys, Len(xs)), Len(xs) * Len(ys))

\* np.isin(labels, target_labels): the boolean mask
NpIsIn(lbls, target_labels) ==
    [i \in 1..Len(lbls) |-> lbls[i] \in target_labels]

\* values[mask]
RECURSIVE SelectByMask(_, _, _)
SelectByMask(values, mask, n) ==
    IF n = 0 THEN <<>>
    ELSE IF mask[n] THEN Append(SelectByMask(values, mask, n - 1), values[n])
    ELSE SelectByMask(values, mask, n - 1)
Masked(values, mask) == SelectByMask(values, mask, Len(values))

\* y = np.isin(labels, ["d", "f"]).astype(int)   (line 95)
ClassTargets(lbls) ==
    [i \in 1..Len(lbls) |-> IF lbls[i] \in {"d", "f"} THEN 1 ELSE 0]

RECURSIVE IntSum(_, _)
IntSum(s, n) == IF n = 0 THEN 0 ELSE IntSum(s, n - 1) + s[n]

Max2(a, b) == IF a >= b THEN a ELSE b
Min2(a, b) == IF a <= b THEN a ELSE b

\* baseline_acc (line 98)
BaselineAcc(n_positive, n_negative, n) ==
    IF n > 0 THEN Q(Max2(n_positive, n_negative), n) ELSE NoneVal

\* len(np.unique(y))
NumClasses(tgt) == Cardinality({tgt[i] : i \in 1..Len(tgt)})

\* A skip condition that looks at the number of classes only.
SkipClassifier_classes(tgt) == NumClasses(tgt) < 2

\* len(np.unique(y)) < 2 or len(y) < 3   (line 100)
SkipClassifier(tgt) == NumClasses(tgt) < 2 \/ Len(tgt) < 3

\* The dataclass (lines 79-88).  roc_curve_points is summarised by the number
\* of distinct scores the curve is drawn from.
ClassifierResult(n, n_positive, n_negative, accuracy, balanced_accuracy,
                 roc_auc, baseline_accuracy, roc_curve_points) ==
    [n_samples |-> n, n_positive |-> n_positive, n_negative |-> n_negative,
     accuracy |-> accuracy, balanced_accuracy |-> balanced_accuracy,
     roc_auc |-> roc_auc, baseline_accuracy |-> baseline_accuracy,
     roc_curve_points |-> roc_curve_points]

\* No cross-validation scheme and no model have been built.
NoCv == [kind |-> "none", n_splits |-> 0]

\* A scheme that always takes five stratified folds above the threshold.
ChooseCv_five(n, n_negative, n_positive) ==
    IF n <= 12 THEN [kind |-> "LeaveOneOut", n_splits |-> n]
    ELSE [kind |-> "StratifiedKFold", n_splits |-> 5]

\* cv = LeaveOneOut() if len(y) <= 12 else StratifiedKFold(n_splits=min(5,
\* n_negative, n_positive), ...)   (lines 112-114)
ChooseCv(n, n_negative, n_positive) ==
    IF n <= 12 THEN [kind |-> "LeaveOneOut", n_splits |-> n]
    ELSE [kind |-> "StratifiedKFold",
          n_splits |-> Min2(5, Min2(n_negative, n_positive))]

\* The states of the generator.
RngMod == 16

\* The next state of the generator after one draw.
RngNext(s) == (5 * s + 3) % RngMod

\* A binding that hands an absent seed on to the generator.
RandomState_absent(given) == given

\* The value bound to random_state: the caller's, or the default 0 when the
\* caller gives none (lines 56, 101).  An absent value is the empty set.
RandomState(given) == IF given = {} THEN {0} ELSE given

\* np.random.default_rng(seed): the possible initial states; a seed fixes the
\* state, no seed takes it from the operating system's entropy.
default_rng(seed) ==
    IF seed = {} THEN 0..(RngMod - 1) ELSE {(7 * s + 1) % RngMod : s \in seed}

Swap(a, i, j) == [a EXCEPT ![i] = a[j], ![j] = a[i]]

\* A resampling that draws the first entry for every position.
Shuffle_first(a, i, s) == [out |-> [j \in 1..Len(a) |-> a[1]], rng |-> RngNext(s)]

\* rng.permutation(a): a Fisher-Yates shuffle, one draw per position.
RECURSIVE Shuffle(_, _, _)
Shuffle(a, i, s) ==
    IF i <= 1 THEN [out |-> a, rng |-> s]
    ELSE Shuffle(Swap(a, i, 1 + (s % i)), i - 1, RngNext(s))

\* The number of samples of class c among the first i.
RECURSIVE ClassRank(_, _, _)
ClassRank(tgt, i, c) ==
    IF i = 0 THEN 0
    ELSE ClassRank(tgt, i - 1, c) + (IF tgt[i] = c THEN 1 ELSE 0)

\* The folds of one class before the shuffle: its members are dealt to the
\* k folds in turn, so the folds' class counts differ by at most one.
ClassFolds(n, k) == [r \in 1..n |-> ((r - 1) % k) + 1]

\* Every sample takes the fold its class's shuffled list gives to its rank.
FoldsFrom(tgt, folds0, folds1) ==
    [i \in 1..Len(tgt) |->
        IF tgt[i] = 0 THEN folds0[ClassRank(tgt, i, 0)]
        ELSE folds1[ClassRank(tgt, i, 1)]]

FoldsAfter(tgt, k, sh0, n1) ==
    FoldsFrom(tgt, sh0.out, Shuffle(ClassFolds(n1, k), n1, sh0.rng).out)

\* StratifiedKFold(n_splits=k, shuffle=True, random_state=random_state): one
\* generator, seeded with random_state, shuffles the fold list of class 0 and
\* then that of class 1.
StratifiedFolds(tgt, k, n0, s0) ==
    FoldsAfter(tgt, k, Shuffle(ClassFolds(n0, k), n0, s0), Len(tgt) - n0)

\* The test fold of every sample: its own fold under leave-one-out, the
\* shuffled stratified folds otherwise.
TestFolds(scheme, tgt, random_state) ==
    IF scheme.kind = "LeaveOneOut" THEN [i \in 1..Len(tgt) |-> i]
    ELSE StratifiedFolds(tgt, scheme.n_splits, ClassRank(tgt, Len(tgt), 0),
                         CHOOSE s0 \in default_rng({random_state}) : TRUE)

\* The sum of s over the training samples (those outside fold f) of class c.
RECURSIVE TrainSum(_, _, _, _, _, _)
TrainSum(s, tgt, folds, f, c, n) ==
    IF n = 0 THEN 0
    ELSE TrainSum(s, tgt, folds, f, c, n - 1)
         + (IF folds[n] # f /\ tgt[n] = c THEN s[n] ELSE 0)

Ones(n) == [i \in 1..n |-> 1]
TrainCount(tgt, folds, f, c) == TrainSum(Ones(Len(tgt)), tgt, folds, f, c, Len(tgt))

\* LogisticRegression(solver="liblinear").fit raises ValueError on a training
\* fold that holds a single class.
FitRaises(tgt, folds, f) ==
    TrainCount(tgt, folds, f, 1) = 0 \/ TrainCount(tgt, folds, f, 0) = 0

\* The fitted model's predict_proba[:, 1] for one held-out sample.  The model
\* internals are sklearn's; the learner here scores a sample by which class
\* mean of the summed features it lies nearer to (distances compared after
\* clearing the denominators).
PredictProba(si, sum_pos, cnt_pos, sum_neg, cnt_neg) ==
    IF AbsInt(si * cnt_pos - sum_pos) * cnt_neg < AbsInt(si * cnt_neg - sum_neg) * cnt_pos
    THEN Q(3, 4)
    ELSE IF AbsInt(si * cnt_pos - sum_pos) * cnt_neg = AbsInt(si * cnt_neg - sum_neg) * cnt_pos
    THEN Q(1, 2)
    ELSE Q(1, 4)

FeatureSums(M) == [i \in 1..Len(M) |-> M[i][1] + M[i][2] + M[i][3] + M[i][4]]

OutOfFoldProba(s, tgt, folds, i) ==
    PredictProba(s[i],
                 TrainSum(s, tgt, folds, folds[i], 1, Len(tgt)),
                 TrainCount(tgt, folds, folds[i], 1),
                 TrainSum(s, tgt, folds, folds[i], 0, Len(tgt)),
                 TrainCount(tgt, folds, folds[i], 0))

\* StratifiedKFold(n_splits=k) raises ValueError when k < 2; cross_val_predict
\* lets the ValueError of a failed fit through.
CrossValWith(s, tgt, scheme, folds) ==
    IF scheme.kind = "StratifiedKFold" /\ scheme.n_splits < 2
    THEN [error |-> "ValueError", probas |-> <<>>]
    ELSE IF \E f \in 1..scheme.n_splits : FitRaises(tgt, folds, f)
    THEN [error |-> "ValueError", probas |-> <<>>]
    ELSE [error |-> NoneId,
          probas |-> [i \in 1..Len(tgt) |-> OutOfFoldProba(s, tgt, folds, i)]]

\* probas = cross_val_predict(model, X, y, cv=cv, method="predict_proba")[:, 1]
cross_val_predict(M, tgt, scheme, random_state) ==
    CrossValWith(FeatureSums(M), tgt, scheme, TestFolds(scheme, tgt, random_state))

\* preds = (probas >= 0.5).astype(int)   (line 118)
Preds(probas) ==
    [i \in 1..Len(probas) |-> IF FGe(probas[i], Q(1, 2)) THEN 1 ELSE 0]

\* accuracy_score(y, preds)
accuracy_score(tgt, preds) ==
    Q(Cardinality({i \in 1..Len(tgt) : tgt[i] = preds[i]}), Len(tgt))

\* Samples of class c, and those of them predicted as c.
ClassMembers(tgt, c) == {i \in 1..Len(tgt) : tgt[i] = c}
Recall(tgt, preds, c) ==
    Q(Cardinality({i \in ClassMembers(tgt, c) : preds[i] = c}),
      Cardinality(ClassMembers(tgt, c)))

\* balanced_accuracy_score(y, preds): the mean of the two recalls
balanced_accuracy_score(tgt, preds) ==
    FDiv(FAdd(Recall(tgt, preds, 1), Recall(tgt, preds, 0)), I(2))

\* roc_auc_score(y, probas): the share of (positive, negative) pairs ranked
\* in order, ties counting one half; None stands for the ValueError caught at
\* lines 124-126 (a single class in y).
roc_auc_score(tgt, probas) ==
    IF NumClasses(tgt) < 2 THEN NoneVal
    ELSE Q(2 * Cardinality({ij \in ClassMembers(tgt, 1) \X ClassMembers(tgt, 0) :
                               FGt(probas[ij[1]], probas[ij[2]])})
             + Cardinality({ij \in ClassMembers(tgt, 1) \X ClassMembers(tgt, 0) :
                               FEq(probas[ij[1]], probas[ij[2]])}),
           2 * Cardinality(ClassMembers(tgt, 1)) * Cardinality(ClassMembers(tgt, 0)))

\* roc_curve(y, probas), None under the same ValueError
roc_curve(tgt, probas) ==
    IF NumClasses(tgt) < 2 THEN NoneVal
    ELSE [k |-> "roc", n |-> Cardinality({probas[i] : i \in 1..Len(probas)}),
          d |-> 1]

\* The result of a run that got its out-of-fold probabilities (lines 118-137).
Evaluated(tgt, n_positive, n_negative, probas, preds) ==
    ClassifierResult(Len(tgt), n_positive, n_negative,
                     accuracy_score(tgt, preds),
                     balanced_accuracy_score(tgt, preds),
                     roc_auc_score(tgt, probas),
                     BaselineAcc(n_positive, n_negative, Len(tgt)),
                     roc_curve(tgt, probas))

\* The skipped result (lines 101-110).
Skipped(tgt, n_positive, n_negative) ==
    ClassifierResult(Len(tgt), n_positive, n_negative, NoneVal, NoneVal, NoneVal,
                     BaselineAcc(n_positive, n_negative, Len(tgt)), NoneVal)

EvaluateCv(tgt, n_positive, n_negative, scheme, cvp) ==
    IF cvp.error # NoneId
    THEN [error |-> cvp.error, cv |-> scheme,
          result |-> Skipped(tgt, n_positive, n_negative)]
    ELSE [error |-> NoneId, cv |-> scheme,
          result |-> Evaluated(tgt, n_positive, n_negative, cvp.probas,
                               Preds(cvp.probas))]

EvaluateChosen(M, tgt, n_positive, n_negative, scheme, random_state) ==
    EvaluateCv(tgt, n_positive, n_negative, scheme,
               cross_val_predict(M, tgt, scheme, random_state))

EvaluateCounts(M, tgt, n_positive, n_negative, random_state) ==
    IF SkipClassifier(tgt)
    THEN [error |-> NoneId, cv |-> NoCv,
          result |-> Skipped(tgt, n_positive, n_negative)]
    ELSE EvaluateChosen(M, tgt, n_positive, n_negative,
                        ChooseCv(Len(tgt), n_negative, n_positive), random_state)

EvaluateTargets(M, tgt, n_positive, random_state) ==
    EvaluateCounts(M, tgt, n_positive, Len(tgt) - n_positive, random_state)

\* evaluate_classifier(X, labels, random_state): the ClassifierResult in
\* .result, or the exception that left the function in .error (.result is then
\* not returned);
\* .cv is the cross-validation scheme that was built.
evaluate_classifier(M, lbls, random_state) ==
    EvaluateTargets(M, ClassTargets(lbls),
                    IntSum(ClassTargets(lbls), Len(lbls)), random_state)

-----------------------------------------------------------------------------
(* null_models.py                                                           *)

\* working[feature_cols].to_numpy(dtype=float): the table's entries are whole
\* numbers, kept as integers.
ToNumpy(v) == [p \in PRIME_COLUMNS |-> v[p].n]

\* _select_prime_columns(metric) applied to a row
FeatureCols(r, metric) == IF metric = "mean" THEN r.mean ELSE r.median

\* n_materials >= n_min, then dropna(subset=feature_cols + ["block"])
KeepRow(r, n_min, metric) ==
    /\ r.n_materials >= n_min
    /\ \A p \in PRIME_COLUMNS : ~IsNaN(FeatureCols(r, metric)[p])
    /\ r.block # NoneId

WorkingSetOf(working, metric) ==
    [working |-> working,
     X |-> [i \in 1..Len(working) |-> ToNumpy(FeatureCols(working[i], metric))],
     labels |-> [i \in 1..Len(working) |-> working[i].block]]

\* prepare_working_set(agg_df, n_min, prime_metric) -> (working, X, labels)
prepare_working_set(agg_df_, n_min, metric) ==
    WorkingSetOf(Masked(agg_df_, [i \in 1..Len(agg_df_) |->
                                     KeepRow(agg_df_[i], n_min, metric)]),
                 metric)

\* X[:, j]
ColumnOf(M, j) == [i \in 1..Len(M) |-> M[i][j]]

MetricKeys ==
    <<"delta_e2_p_vs_df", "delta_e5_df_vs_sp", "delta_e7_df_vs_sp",
      "classifier_accuracy">>

\* The metrics dict of lines 20-32, given the ClassifierResult.
Metrics(e2, e5, e7, lbls, clf_res) ==
    [delta_e2_p_vs_df |->
         cliffs_delta(Masked(e2, NpIsIn(lbls, {"p"})),
                      Masked(e2, NpIsIn(lbls, {"d", "f"}))),
     delta_e5_df_vs_sp |->
         cliffs_delta(Masked(e5, NpIsIn(lbls, {"d", "f"})),
                      Masked(e5, NpIsIn(lbls, {"s", "p"}))),
     delta_e7_df_vs_sp |->
         cliffs_delta(Masked(e7, NpIsIn(lbls, {"d", "f"})),
                      Masked(e7, NpIsIn(lbls, {"s", "p"}))),
     classifier_accuracy |-> clf_res.accuracy]

NoMetrics ==
    [delta_e2_p_vs_df |-> NaN, delta_e5_df_vs_sp |-> NaN,
     delta_e7_df_vs_sp |-> NaN, classifier_accuracy |-> NoneVal]

SnapshotWith(M, lbls, ev) ==
    IF ev.error # NoneId
    THEN [error |-> ev.error, metrics |-> NoMetrics]
    ELSE [error |-> NoneId,
          metrics |-> Metrics(ColumnOf(M, 1), ColumnOf(M, 3), ColumnOf(M, 4),
                              lbls, ev.result)]

\* _metric_snapshot(X, labels); .error is an exception of evaluate_classifier,
\* which is called without a random_state and so with its default 0 (line 31)
metric_snapshot(M, lbls) == SnapshotWith(M, lbls, evaluate_classifier(M, lbls, 0))

\* The samples of a list that are neither None nor NaN (lines 37, 45).
RECURSIVE FiniteOf(_, _)
FiniteOf(samples, n) ==
    IF n = 0 THEN <<>>
    ELSE IF samples[n] # NoneVal /\ ~IsNaN(samples[n])
    THEN Append(FiniteOf(samples, n - 1), samples[n])
    ELSE FiniteOf(samples, n - 1)

\* np.isnan(v): a TypeError for None
IsNanRaises(v) == v = NoneVal

\* An empirical p-value without the add-one smoothing.
EmpiricalP_raw(real, arr) ==
    IF IsNaN(real) \/ Len(arr) = 0 THEN NoneVal
    ELSE Q(Cardinality({i \in 1..Len(arr) : FGe(FAbs(arr[i]), FAbs(real))}),
           Len(arr))

\* An empirical p-value that counts only the strictly more extreme samples.
EmpiricalP_strict(real, arr) ==
    IF IsNaN(real) \/ Len(arr) = 0 THEN NoneVal
    ELSE Q(Cardinality({i \in 1..Len(arr) : FGt(FAbs(arr[i]), FAbs(real))}) + 1,
           Len(arr) + 1)

\* _empirical_p on the filtered array, for a real value that is not None
EmpiricalP(real, arr) ==
    IF IsNaN(real) \/ Len(arr) = 0 THEN NoneVal
    ELSE Q(Cardinality({i \in 1..Len(arr) : FGe(FAbs(arr[i]), FAbs(real))}) + 1,
           Len(arr) + 1)

\* arr.mean()
NpMean(arr) == IF Len(arr) = 0 THEN NaN ELSE FDiv(NpSum(arr), I(Len(arr)))

\* The variance with ddof=1, NaN for fewer than two values.
SquaredDevs(arr, m) == [i \in 1..Len(arr) |-> FSq(FSub(arr[i], m))]
VarianceAbout(arr, m) ==
    IF Len(arr) < 2 THEN NaN
    ELSE FDiv(NpSum(SquaredDevs(arr, m)), I(Len(arr) - 1))
Variance(arr) == VarianceAbout(arr, NpMean(arr))

\* The square root of a variance, kept exact: sqrt(n/d) stays symbolic.
FSqrt(v) ==
    IF IsNaN(v) THEN NaN
    ELSE IF v = Zero THEN Zero
    ELSE [k |-> "sqrt", n |-> v.n, d |-> v.d]

\* arr.std(ddof=1)
NpStd(arr) == FSqrt(Variance(arr))

\* (real - arr.mean()) / arr.std(ddof=1): a division by zero gives inf or NaN;
\* otherwise the quotient diff / sqrt(var) stays symbolic.
ZQuotient(diff, var) ==
    IF IsNaN(var) \/ IsNaN(diff) THEN NaN
    ELSE IF var = Zero THEN FDiv(diff, Zero)
    ELSE [k |-> "zscore", n |-> diff, d |-> var]

\* _z_score on the filtered array, for a real value that is not None
ZScore(real, arr) ==
    IF IsNaN(real) \/ Len(arr) < 2 THEN NoneVal
    ELSE ZQuotient(FSub(real, NpMean(arr)), Variance(arr))

\* "real": None if the value is None or NaN (lines 80, 129)
RealOf(v) == IF v = NoneVal \/ IsNaN(v) THEN NoneVal ELSE v

\* One entry of the summary (lines 75-81, 124-130).  np.nanmean raises a
\* TypeError on a list that holds None, and np.isnan(real) raises it on None.
StatEntry(real, samples, arr) ==
    IF (\E t \in 1..Len(samples) : samples[t] = NoneVal) \/ IsNanRaises(real)
    THEN [error |-> "TypeError", mean |-> NaN, std |-> NaN,
          p_value |-> NoneVal, z_score |-> NoneVal, real |-> NoneVal]
    ELSE [error |-> NoneId, mean |-> NpMean(arr), std |-> NpStd(arr),
          p_value |-> EmpiricalP(real, arr), z_score |-> ZScore(real, arr),
          real |-> RealOf(real)]

SamplesOf(samples, key) == [t \in 1..Len(samples) |-> samples[t][key]]

StatOf(real_metrics, samples, key) ==
    StatEntry(real_metrics[key], SamplesOf(samples, key),
              FiniteOf(SamplesOf(samples, key), Len(samples)))

\* _random_rotation(dim=4, rng): the orthogonal matrices drawn are the signed
\* permutation matrices; .out is the column permutation.
random_rotation(s) == Shuffle(<<1, 2, 3, 4>>, 4, s)

\* np.abs(X @ R) for a signed permutation matrix R
Rotated(M, sigma) ==
    [i \in 1..Len(M) |-> [j \in PRIME_COLUMNS |-> AbsInt(M[i][sigma[j]])]]

\* One trial appended to the accumulated samples, or the exception it raised.
TrialRecord(acc, rng, snap) ==
    IF snap.error # NoneId
    THEN [error |-> snap.error, samples |-> acc.samples, rng |-> rng]
    ELSE [error |-> NoneId, samples |-> Append(acc.samples, snap.metrics),
          rng |-> rng]

PermDraw(M, acc, sh) == TrialRecord(acc, sh.rng, metric_snapshot(M, sh.out))

\* The body of the loop at lines 67-71.
PermStep(M, lbls, acc) ==
    IF acc.error # NoneId THEN acc
    ELSE PermDraw(M, acc, Shuffle(lbls, Len(lbls), acc.rng))

RECURSIVE PermTrials(_, _, _, _)
PermTrials(M, lbls, t, s0) ==
    IF t = 0 THEN [error |-> NoneId, samples |-> <<>>, rng |-> s0]
    ELSE PermStep(M, lbls, PermTrials(M, lbls, t - 1, s0))

RotDraw(M, lbls, acc, rot) ==
    TrialRecord(acc, rot.rng, metric_snapshot(Rotated(M, rot.out), lbls))

\* The body of the loop at lines 115-120.
RotStep(M, lbls, acc) ==
    IF acc.error # NoneId THEN acc
    ELSE RotDraw(M, lbls, acc, random_rotation(acc.rng))

RECURSIVE RotTrials(_, _, _, _)
RotTrials(M, lbls, t, s0) ==
    IF t = 0 THEN [error |-> NoneId, samples |-> <<>>, rng |-> s0]
    ELSE RotStep(M, lbls, RotTrials(M, lbls, t - 1, s0))

NoStats == [key \in {MetricKeys[i] : i \in 1..4} |->
               [error |-> NoneId, mean |-> NaN, std |-> NaN, p_value |-> NoneVal,
                z_score |-> NoneVal, real |-> NoneVal]]

\* A run that returned {"skipped_reason": ...}.
SkippedRun(reason, n_trials) ==
    [error |-> NoneId, skipped_reason |-> reason, stats |-> NoStats,
     n_trials |-> n_trials, n_elements |-> 0, samples |-> <<>>]

\* A run that raised.
RaisedRun(error, n_trials, samples) ==
    [error |-> error, skipped_reason |-> NoneId, stats |-> NoStats,
     n_trials |-> n_trials, n_elements |-> 0, samples |-> samples]

\* The summary of lines 73-84 / 122-133; .samples keeps the accumulated
\* null_samples / rotation_samples of the run, trial by trial.
SummaryOf(stats, n_trials, n_elements, samples) ==
    IF \E key \in DOMAIN stats : stats[key].error # NoneId
    THEN RaisedRun("TypeError", n_trials, samples)
    ELSE [error |-> NoneId, skipped_reason |-> NoneId, stats |-> stats,
          n_trials |-> n_trials, n_elements |-> n_elements, samples |-> samples]

Summarise(real_metrics, samples, n_trials, n_elements) ==
    SummaryOf([key \in {MetricKeys[i] : i \in 1..4} |->
                  StatOf(real_metrics, samples, key)],
              n_trials, n_elements, samples)

FinishRun(real, trials, n_trials, n_elements) ==
    IF real.error # NoneId THEN RaisedRun(real.error, n_trials, <<>>)
    ELSE IF trials.error # NoneId
    THEN RaisedRun(trials.error, n_trials, trials.samples)
    ELSE Summarise(real.metrics, trials.samples, n_trials, n_elements)

PermRun(ws, n_perm, s0) ==
    IF Len(ws.labels) = 0
    THEN SkippedRun("No elements pass n_min filter.", n_perm)
    ELSE FinishRun(metric_snapshot(ws.X, ws.labels),
                   PermTrials(ws.X, ws.labels, n_perm, s0),
                   n_perm, Len(ws.labels))

\* run_permutation_nulls(agg_df, n_min, prime_metric, n_perm, random_state):
\* the possible results, one per initial state of the generator.
run_permutation_nulls(agg_df_, n_min, metric, n_perm, given) ==
    { PermRun(prepare_working_set(agg_df_, n_min, metric), n_perm, s0) :
        s0 \in default_rng(RandomState(given)) }

\* A test that lets a rotation count of 0 through.
RotationsDisabled_negative(n_rotations) == n_rotations < 0

\* n_rotations <= 0   (line 104)
RotationsDisabled(n_rotations) == n_rotations <= 0

RotRun(ws, n_rotations, s0) ==
    IF Len(ws.labels) = 0
    THEN SkippedRun("No elements pass n_min filter.", n_rotations)
    ELSE FinishRun(metric_snapshot(ws.X, ws.labels),
                   RotTrials(ws.X, ws.labels, n_rotations, s0),
                   n_rotations, Len(ws.labels))

\* run_rotation_nulls(agg_df, n_min, prime_metric, n_rotations, random_state)
run_rotation_nulls(agg_df_, n_min, metric, n_rotations, given) ==
    IF RotationsDisabled(n_rotations)
    THEN {SkippedRun("n_rotations set to 0.", n_rotations)}
    ELSE { RotRun(prepare_working_set(agg_df_, n_min, metric), n_rotations, s0) :
             s0 \in default_rng(RandomState(given)) }

-----------------------------------------------------------------------------
(* data.py and prep_study04_layer_data.py                                   *)

\* Series.median() of non-NaN values: NaN when empty.
RECURSIVE InsertSorted(_, _)
InsertSorted(s, v) ==
    IF Len(s) = 0 THEN <<v>>
    ELSE IF FLe(v, Head(s)) THEN <<v>> \o s
    ELSE <<Head(s)>> \o InsertSorted(Tail(s), v)
RECURSIVE SortFloats(_, _)
SortFloats(s, n) ==
    IF n = 0 THEN <<>> ELSE InsertSorted(SortFloats(s, n - 1), s[n])
MedianOfSorted(s) ==
    IF Len(s) = 0 THEN NaN
    ELSE IF Len(s) % 2 = 1 THEN s[(Len(s) + 1) \div 2]
    ELSE FDiv(FAdd(s[Len(s) \div 2], s[(Len(s) \div 2) + 1]), I(2))
Median(vals) == MedianOfSorted(SortFloats(vals, Len(vals)))

\* group[prime].abs().dropna()
AbsValues(group, p) == DropNa([i \in 1..Len(group) |-> FAbs(group[i].primes[p])])

\* filter_included_rows (data.py lines 94-101)
IncludedRow(m) ==
    /\ m.include_study04 = 1
    /\ m.carrier_element # NoneId
    /\ m.carrier_block # NoneId
filter_included_rows(df) == Masked(df, [i \in 1..Len(df) |-> IncludedRow(df[i])])

\* groupby("carrier_element"): the groups come in the sorted order of their
\* keys; rows without a key belong to no group.
SortedElements == <<"Al", "Ce", "La", "Nb">>
GroupKeys(df) ==
    Masked(SortedElements,
           [k \in 1..Len(SortedElements) |->
               \E i \in 1..Len(df) : df[i].carrier_element = SortedElements[k]])
GroupOf(df, element) ==
    Masked(df, [i \in 1..Len(df) |-> df[i].carrier_element = element])

\* group["carrier_block"].dropna().unique()
BlockValues(group) == {group[i].carrier_block : i \in 1..Len(group)} \ {NoneId}

\* The per-prime statistics of a group (data.py lines 161-171, prep 78-89).
PrimeMeans(group) == [p \in PRIME_COLUMNS |-> NpMean(AbsValues(group, p))]
PrimeMedians(group) == [p \in PRIME_COLUMNS |-> Median(AbsValues(group, p))]
PrimeStds(group) == [p \in PRIME_COLUMNS |-> NpStd(AbsValues(group, p))]

\* The record of one element (data.py lines 139-173), its block being unique;
\* the optional Z / group / period descriptors are left out.
ElementRecord(element, group) ==
    [element |-> element,
     block |-> CHOOSE b \in BlockValues(group) : TRUE,
     n_materials |-> Len(group),
     mean |-> PrimeMeans(group), median |-> PrimeMedians(group),
     std |-> PrimeStds(group)]

\* The warnings of lines 165-168: the (element, prime) pairs without a value.
GroupWarnings(element, group) ==
    {<<element, p>> : p \in {q \in PRIME_COLUMNS : Len(AbsValues(group, q)) = 0}}

\* len(block_values) != 1   (data.py line 135)
BlockNotUnique(group) == Cardinality(BlockValues(group)) # 1

AggregateGroups(filtered, keys) ==
    IF \E k \in 1..Len(keys) : BlockNotUnique(GroupOf(filtered, keys[k]))
    THEN [error |-> "ValueError", table |-> <<>>, warnings |-> {}]
    ELSE [error |-> NoneId,
          table |-> [k \in 1..Len(keys) |->
                        ElementRecord(keys[k], GroupOf(filtered, keys[k]))],
          warnings |-> UNION {GroupWarnings(keys[k], GroupOf(filtered, keys[k])) :
                                 k \in 1..Len(keys)}]

AggregateFiltered(filtered) ==
    IF Len(filtered) = 0
    THEN [error |-> "ValueError", table |-> <<>>, warnings |-> {}]
    ELSE AggregateGroups(filtered, GroupKeys(filtered))

\* aggregate_element_table(df): the AggregationResult, or the ValueError raised
aggregate_element_table(df) == AggregateFiltered(filter_included_rows(df))

\* valid_primes (prep line 60): some component present and not all four zero
ValidPrimes(m) ==
    /\ \E p \in PRIME_COLUMNS : ~IsNaN(m.primes[p])
    /\ ~(\A p \in PRIME_COLUMNS : FEq(m.primes[p], Zero))

\* include_mask (prep line 61)
PrepIncluded(m) == m.include_study04 = 1 /\ ValidPrimes(m)

\* Series.mode().iat[0]: the most frequent non-null value, the first in sorted
\* order among equally frequent ones.
BlockOrder == <<"d", "f", "p", "s">>
BlockCount(group, b) == Cardinality({i \in 1..Len(group) : group[i].carrier_block = b})
IsMode(group, k) ==
    /\ BlockCount(group, BlockOrder[k]) > 0
    /\ \A j \in 1..Len(BlockOrder) :
           BlockCount(group, BlockOrder[j]) <= BlockCount(group, BlockOrder[k])
BlockMode(group) ==
    BlockOrder[CHOOSE k \in 1..Len(BlockOrder) :
                   IsMode(group, k) /\ \A j \in 1..(k - 1) : ~IsMode(group, j)]

\* "block" (prep line 71)
PrepBlock(group) ==
    IF BlockValues(group) = {} THEN NoneId ELSE BlockMode(group)

\* The record of one carrier (prep lines 69-91); merged has no "N" column.
CarrierRecord(carrier, group) ==
    [carrier_element |-> carrier,
     block |-> PrepBlock(group),
     n_materials |-> Len(group),
     N_median |-> NaN,
     mean |-> PrimeMeans(group), median |-> PrimeMedians(group),
     std |-> PrimeStds(group),
     delta_N_median |->
         Median(DropNa([i \in 1..Len(group) |-> group[i].delta_N])),
     xi_ext_median |->
         Median(DropNa([i \in 1..Len(group) |-> group[i].predicted_noise]))]

CarrierStatsOf(filtered, keys) ==
    [k \in 1..Len(keys) |-> CarrierRecord(keys[k], GroupOf(filtered, keys[k]))]

\* carrier_stats of prep main (lines 60-94) from the merged material table
carrier_stats_of(merged) ==
    CarrierStatsOf(Masked(merged, [i \in 1..Len(merged) |-> PrepIncluded(merged[i])]),
                   GroupKeys(Masked(merged, [i \in 1..Len(merged) |->
                                                PrepIncluded(merged[i])])))

-----------------------------------------------------------------------------
(* run_study04_resonant_layer_engine.py                                     *)

\* carrier_df[carrier_df["block"].isin(families)], when families were given
\* (runner lines 95-96)
FilterFamilies(df, families) ==
    IF families = {} THEN df
    ELSE Masked(df, [i \in 1..Len(df) |-> df[i].block \in families])

\* df[df["carrier_element"].isin(elements)], when elements were given
\* (engine lines 112-113)
FilterElements(df, elements) ==
    IF elements = {} THEN df
    ELSE Masked(df, [i \in 1..Len(df) |-> df[i].carrier_element \in elements])

\* The table that reaches the scoring loop.
ScoredTable(df, a) == FilterElements(FilterFamilies(df, a.families), a.elements)

\* An emptiness test that never reports an empty table.
DfEmpty_never(df) == FALSE

\* df.empty (engine line 114)
DfEmpty(df) == Len(df) = 0

\* The files written by the runners after a successful run.
ResonantOutputs ==
    {"element_topology_scores.csv", "element_topology_inference.csv",
     "topology_map_resonant.png", "element_topology_match_matrix_resonant.png"}
SimpleOutputs(un) ==
    IF un
    THEN {"carrier_topology_scores.csv", "carrier_topology_assignments.csv",
          "topology_map_full.png", "lock_noise_scatter.png",
          "element_topology_match_matrix.png"}
    ELSE {"carrier_topology_scores_e_only.csv",
          "carrier_topology_assignments_e_only.csv", "topology_map_e_only.png"}

-----------------------------------------------------------------------------
(* analysis.py: block statistics                                             *)

\* A selection that keeps every value whatever its label.
group_arrays_all(values, lbls, target_labels) == values

\* _group_arrays(values, labels, target_labels)   (lines 52-54)
group_arrays(values, lbls, target_labels) ==
    Masked(values, NpIsIn(lbls, target_labels))

\* np.median of an array of whole numbers
NpMedian(vals) == Median([i \in 1..Len(vals) |-> I(vals[i])])

\* mannwhitneyu(a, b, alternative="two-sided").pvalue is scipy's: it is kept
\* as the rank statistic it is computed from, with the product of the sizes.
MannWhitneyP(a_vals, b_vals) ==
    [k |-> "mwu", n |-> SignMatrixSum(a_vals, b_vals, Len(a_vals)),
     d |-> Len(a_vals) * Len(b_vals)]

\* The TestResult of two groups (lines 70-76).
MannWhitneyOf(a_vals, b_vals) ==
    IF Len(a_vals) = 0 \/ Len(b_vals) = 0
    THEN [group_sizes |-> [a |-> Len(a_vals), b |-> Len(b_vals)],
          delta |-> NoneVal, p_value |-> NoneVal, median_diff |-> NoneVal]
    ELSE [group_sizes |-> [a |-> Len(a_vals), b |-> Len(b_vals)],
          delta |-> cliffs_delta(a_vals, b_vals),
          p_value |-> MannWhitneyP(a_vals, b_vals),
          median_diff |-> FSub(NpMedian(a_vals), NpMedian(b_vals))]

\* mann_whitney_with_effect(values, labels, group_a, group_b)
mann_whitney_with_effect(values, lbls, group_a, group_b) ==
    MannWhitneyOf(group_arrays(values, lbls, group_a),
                  group_arrays(values, lbls, group_b))

\* The BlockStatistics returned at lines 165-174.
BlockStatistics(n_elements, ws, n_min, metric, clf_result) ==
    [n_elements |-> n_elements,
     n_elements_robust |-> Len(ws.working),
     n_min |-> n_min,
     prime_metric |-> metric,
     test_p_vs_df_e2 |->
         mann_whitney_with_effect(ColumnOf(ws.X, 1), ws.labels, {"p"}, {"d", "f"}),
     test_df_vs_sp_e5 |->
         mann_whitney_with_effect(ColumnOf(ws.X, 3), ws.labels, {"d", "f"}, {"s", "p"}),
     test_df_vs_sp_e7 |->
         mann_whitney_with_effect(ColumnOf(ws.X, 4), ws.labels, {"d", "f"}, {"s", "p"}),
     classifier |-> clf_result]

BlockStatsWith(n_elements, ws, n_min, metric, ev) ==
    [error |-> ev.error,
     stats |-> BlockStatistics(n_elements, ws, n_min, metric, ev.result)]

BlockStatsOf(n_elements, ws, n_min, metric, random_state) ==
    BlockStatsWith(n_elements, ws, n_min, metric,
                   evaluate_classifier(ws.X, ws.labels, random_state))

\* compute_block_statistics(agg_df, n_min, prime_metric, random_state): the
\* BlockStatistics in .stats, or the exception of evaluate_classifier in
\* .error (.stats is then not returned).
compute_block_statistics(agg_df_, n_min, metric, random_state) ==
    BlockStatsOf(Len(agg_df_), prepare_working_set(agg_df_, n_min, metric),
                 n_min, metric, random_state)

\* _maybe(obj): None for None and NaN   (lines 193-194)
Maybe(obj) == IF obj = NoneVal \/ IsNaN(obj) THEN NoneVal ELSE obj

SerializeTest(test) ==
    [group_sizes |-> test.group_sizes, delta |-> Maybe(test.delta),
     p_value |-> Maybe(test.p_value), median_diff |-> Maybe(test.median_diff)]

\* serialize_block_statistics(stats)   (lines 191-228)
serialize_block_statistics(stats) ==
    [n_elements |-> stats.n_elements,
     n_elements_robust |-> stats.n_elements_robust,
     n_min |-> stats.n_min,
     prime_metric |-> stats.prime_metric,
     tests |-> [p_vs_df_e2 |-> SerializeTest(stats.test_p_vs_df_e2),
                df_vs_sp_e5 |-> SerializeTest(stats.test_df_vs_sp_e5),
                df_vs_sp_e7 |-> SerializeTest(stats.test_df_vs_sp_e7)],
     classifier |->
         [n_samples |-> stats.classifier.n_samples,
          n_positive |-> stats.classifier.n_positive,
          n_negative |-> stats.classifier.n_negative,
          accuracy |-> Maybe(stats.classifier.accuracy),
          balanced_accuracy |-> Maybe(stats.classifier.balanced_accuracy),
          roc_auc |-> Maybe(stats.classifier.roc_auc),
          baseline_accuracy |-> Maybe(stats.classifier.baseline_accuracy)]]

-----------------------------------------------------------------------------
(* null_models.py: the two runners statement by statement                    *)

\* null_samples = {k: [] for k in real_metrics}   (lines 65, 113)
NoSamples == [key \in {MetricKeys[i] : i \in 1..4} |-> <<>>]

\* The locals of a runner that has just been entered: no generator, no
\* snapshot computed.  snapshots counts the _metric_snapshot calls, snap_X and
\* snap_labels are the arguments of the latest one, trials the iterations of
\* the loop completed.
EnteredFrame(kind) ==
    [kind |-> kind, X |-> <<>>, labels |-> <<>>, rng |-> {},
     real_metrics |-> NoMetrics, null_samples |-> NoSamples, trials |-> 0,
     snapshots |-> 0, snap_X |-> <<>>, snap_labels |-> <<>>]

\* The locals after lines 63-65 / 111-113.
LoopFrame(kind, ws, s0, real) ==
    [kind |-> kind, X |-> ws.X, labels |-> ws.labels, rng |-> {s0},
     real_metrics |-> real.metrics, null_samples |-> NoSamples, trials |-> 0,
     snapshots |-> 1, snap_X |-> ws.X, snap_labels |-> ws.labels]

\* for key, value in metrics.items(): null_samples[key].append(value)
AppendMetrics(null_samples, metrics) ==
    [key \in DOMAIN null_samples |-> Append(null_samples[key], metrics[key])]

\* The locals after one iteration that called _metric_snapshot(M, lbls) and
\* left the generator in state s; a snapshot that raised appends nothing.
AfterTrial(frame, M, lbls, s, snap) ==
    [frame EXCEPT !.rng = {s},
                  !.snapshots = @ + 1,
                  !.snap_X = M,
                  !.snap_labels = lbls,
                  !.trials = IF snap.error # NoneId THEN @ ELSE @ + 1,
                  !.null_samples = IF snap.error # NoneId THEN @
                                   ELSE AppendMetrics(@, snap.metrics)]

\* One iteration of the permutation loop (lines 68-71).
PermIteration(frame, sh) ==
    AfterTrial(frame, frame.X, sh.out, sh.rng, metric_snapshot(frame.X, sh.out))

\* One iteration of the rotation loop (lines 116-120).
RotIteration(frame, rot) ==
    AfterTrial(frame, Rotated(frame.X, rot.out), frame.labels, rot.rng,
               metric_snapshot(Rotated(frame.X, rot.out), frame.labels))

\* The accumulated samples trial by trial.
TrialsOf(null_samples, n) ==
    [t \in 1..n |-> [key \in DOMAIN null_samples |-> null_samples[key][t]]]

\* The summary built at lines 73-84 / 122-133, or the TypeError raised there.
LoopSummary(frame, n_trials) ==
    SummaryOf([key \in DOMAIN frame.null_samples |->
                  StatEntry(frame.real_metrics[key], frame.null_samples[key],
                            FiniteOf(frame.null_samples[key],
                                     Len(frame.null_samples[key])))],
              n_trials, Len(frame.labels),
              TrialsOf(frame.null_samples, frame.trials))

-----------------------------------------------------------------------------
(* Inputs                                                                   *)

MaxE == 1          \* raw fingerprint / weight components range over -MaxE..MaxE
MaxRows == 2       \* rows of the aggregate table
MaxLen == 2        \* length of the arrays given to cliffs_delta
MaxVal == 2        \* values of those arrays range over 0..MaxVal
MaxRunnerRows == 1 \* rows of the table when the three runners run side by side

RECURSIVE SeqsUpTo(_, _)
SeqsUpTo(S, n) ==
    IF n = 0 THEN {<<>>}
    ELSE LET shorter == SeqsUpTo(S, n - 1)
         IN  shorter \cup {Append(q, e) : q \in {r \in shorter : Len(r) = n - 1}, e \in S}

V4(a, b, c, d) == <<a, b, c, d>>
I4(a, b, c, d) == <<I(a), I(b), I(c), I(d)>>

\* Raw components: missing, or an integer of either sign.
RawValues == {I(i) : i \in -MaxE..MaxE}
RawVectors == [PRIME_COLUMNS -> RawValues \cup {NaN}]
RawWeightVectors == [PRIME_COLUMNS -> RawValues]

Entry(id, w, ns) == [topology_id |-> id, w |-> w, noise_sensitivity |-> ns]

\* Catalog files for the loader alone: any one entry, optionally followed by a
\* second one on another scale.
LoaderFiles ==
    {<<>>}
    \cup {<<Entry("BIN_DIPOLE", w, One)>> : w \in RawWeightVectors}
    \cup {<<Entry("BIN_DIPOLE", w, One), Entry("TRI_RING", I4(0, -3, 0, 6), One)>> :
              w \in RawWeightVectors}

\* Catalog files for the cost engines.
EngineFiles ==
    { <<>>,
      <<Entry("BIN_DIPOLE", I4(2, 0, 0, 0), One)>>,
      <<Entry("BIN_DIPOLE", I4(2, 0, 0, 0), One),
        Entry("TRI_RING", I4(0, 3, 0, 0), One),
        Entry("TETRA_PACK", I4(1, 1, 0, 0), I(2))>>,
      <<Entry("TRI_RING", I4(1, 1, 0, 0), One),
        Entry("TETRA_PACK", I4(-2, -2, 0, 0), One)>>,
      <<Entry("CUSTOM", I4(0, 0, 0, 0), I(-1)),
        Entry("BIN_DIPOLE", I4(1, 0, 0, 1), One)>> }

ElementNames == <<"Al", "Nb", "La", "Ce">>
ElementBlocks == <<"p", "d", "d", "f">>

Features(mean, median, N, dN, xi) ==
    [mean |-> mean, median |-> median, N_median |-> N,
     delta_N_median |-> dN, xi_ext_median |-> xi]

MkTable(fs) ==
    [i \in 1..Len(fs) |->
        [carrier_element |-> ElementNames[i],
         block |-> ElementBlocks[i],
         mean |-> fs[i].mean, median |-> fs[i].median,
         N_median |-> fs[i].N_median,
         delta_N_median |-> fs[i].delta_N_median,
         xi_ext_median |-> fs[i].xi_ext_median]]

\* Rows of the simple formulation: abs_<p>_mean and the two noise medians.
SimpleFingerprints ==
    { I4(2, 0, 0, 0), I4(1, 1, 0, 0), V4(I(1), NaN, I(0), I(0)) }
SimpleNoise == { <<NaN, NaN>>, <<Zero, Zero>>, <<Q(1, 2), One>> }
SimpleFeatures ==
    { Features(f, f, NaN, nz[1], nz[2]) : f \in SimpleFingerprints, nz \in SimpleNoise }
SimpleTables == { MkTable(fs) : fs \in SeqsUpTo(SimpleFeatures, MaxRows) }
SimpleLambdas == { I(-1), Zero, Q(1, 2) }

\* Rows of the resonant formulation.
AllMissing == V4(NaN, NaN, NaN, NaN)
ResonantFeatures ==
    { Features(I4(2, 0, 0, 0), I4(2, 0, 0, 0), I(2), Zero, Q(1, 4)),
      Features(I4(1, 1, 0, 0), I4(1, 1, 0, 0), NaN, Q(1, 2), NaN),
      Features(I4(1, 1, 0, 0), I4(1, 1, 0, 0), NaN, NaN, NaN),
      Features(I4(1, 2, 0, 0), V4(I(1), NaN, I(0), I(0)), I(2), Q(1, 2), One),
      Features(V4(I(1), NaN, I(0), I(0)), V4(I(1), NaN, I(0), I(0)), NaN, Zero, Q(1, 4)),
      Features(I4(0, 0, 0, 0), I4(0, 0, 0, 0), NaN, NaN, NaN),
      Features(AllMissing, AllMissing, I(2), Zero, One),
      Features(AllMissing, AllMissing, NaN, NaN, NaN) }
ResonantTables == { MkTable(fs) : fs \in SeqsUpTo(ResonantFeatures, MaxRows) }
ResonantParams ==
    { DefaultParams,
      [DefaultParams EXCEPT !.lambda_N = I(-1), !.lambda_xi = I(-1)],
      [DefaultParams EXCEPT !.lambda_N = Zero, !.lambda_xi = Zero],
      [DefaultParams EXCEPT !.sigma_e = One, !.sigma_xi = One, !.xi_env = Zero] }

CliffArrays == SeqsUpTo(0..MaxVal, MaxLen)

\* Label vectors for the classifier: runs of s, p, d and f rows.
MaxSamples == 13   \* samples given to evaluate_classifier
Repeat(v, n) == [i \in 1..n |-> v]
LabelCounts ==
    {q \in (0..MaxSamples) \X (0..1) \X (0..MaxSamples) \X (0..1) :
        q[1] + q[2] + q[3] + q[4] <= MaxSamples}
ClassifierLabels ==
    {Repeat("s", q[1]) \o Repeat("p", q[2]) \o Repeat("d", q[3]) \o Repeat("f", q[4]) :
        q \in LabelCounts}

\* The random_state values given to evaluate_classifier.
ClassifierSeeds == {0, 1}

\* Feature matrices for a label vector: all rows equal, the two classes apart,
\* or values unrelated to the class.
FeaturePatterns == {"flat", "separable", "cyclic"}
ClassifierFeatures(lbls, pat) ==
    [i \in 1..Len(lbls) |->
        CASE pat = "flat" -> <<1, 1, 1, 1>>
          [] pat = "separable" ->
                 IF lbls[i] \in {"d", "f"} THEN <<2, 0, 1, 0>> ELSE <<0, 0, 0, 0>>
          [] OTHER -> <<i % 3, 0, 0, 1>>]

\* Per-element tables for the null models: the first rows of a few row lists.
MaxElements == 4   \* rows of the table given to the null models
MaxTrials == 2     \* n_perm, n_rotations

NullElements == <<"Al", "Ce", "La", "Nb", "Pb", "Sn">>
NullList(blocks, counts, means, medians) ==
    [i \in 1..6 |->
        [element |-> NullElements[i], block |-> blocks[i],
         n_materials |-> counts[i], mean |-> means[i], median |-> medians[i]]]

Twos == <<2, 2, 2, 2, 2, 2>>
SpreadMeans ==
    <<I4(1, 0, 2, 1), I4(3, 0, 1, 2), I4(2, 0, 3, 0), I4(4, 1, 0, 3),
      I4(0, 2, 2, 2), I4(5, 0, 4, 1)>>
FlatMeans == [i \in 1..6 |-> I4(1, 1, 1, 1)]

NullLists ==
    { NullList(<<"p", "d", "p", "d", "s", "f">>, Twos, SpreadMeans, SpreadMeans),
      NullList(<<"s", "d", "s", "d", "f", "s">>, Twos, SpreadMeans, FlatMeans),
      NullList(<<"d", "d", "f", "d", "f", "d">>, Twos, SpreadMeans, SpreadMeans),
      NullList(<<"p", "d", "d", "d", "f", "d">>, Twos, SpreadMeans, SpreadMeans),
      NullList(<<"p", "d", "p", "d", "p", "d">>, Twos, FlatMeans, FlatMeans),
      NullList(<<"p", "d", NoneId, "p", "d", "f">>, <<2, 1, 2, 2, 2, 2>>,
               [SpreadMeans EXCEPT ![4] = V4(I(2), NaN, I(1), I(0))],
               SpreadMeans) }
NullTables == {SubSeq(l, 1, n) : l \in NullLists, n \in 0..MaxElements}

\* A table large enough for the stratified folds: thirteen elements, one in
\* the s block, one in the p block, the others in the d block.
LargeElements ==
    <<"Al", "Ce", "La", "Nb", "Pb", "Sn", "Ta", "Ti", "V", "Y", "Zr", "Hf", "In">>
LargeBlocks ==
    <<"s", "p", "d", "d", "d", "d", "d", "d", "d", "d", "d", "d", "d">>
LargeTable ==
    [i \in 1..Len(LargeElements) |->
        [element |-> LargeElements[i], block |-> LargeBlocks[i], n_materials |-> 2,
         mean |-> I4(i % 3, 0, 0, 1), median |-> I4(i % 3, 0, 0, 1)]]
RunTables == NullTables \cup {LargeTable}

NullArgs ==
    [n_min : {1, 2}, prime_metric : {"mean", "median"}, n_perm : 0..MaxTrials,
     n_rotations : {-1, 0, MaxTrials}, random_state : {{}, {0}, {1}}]

\* --elements / --families after _parse_list (empty: no filter).
NoFilter == [elements |-> {}, families |-> {}]
FilterArgs ==
    { [elements |-> {"Al"}, families |-> {}],
      [elements |-> {}, families |-> {"d", "f"}],
      [elements |-> {"Al", "Zr"}, families |-> {"d"}],
      [elements |-> {"Zr"}, families |-> {}] }
FilteredFeatures ==
    { Features(I4(2, 0, 0, 0), I4(2, 0, 0, 0), I(2), Zero, Q(1, 4)),
      Features(AllMissing, AllMissing, NaN, NaN, NaN) }
FilteredTables == { MkTable(fs) : fs \in SeqsUpTo(FilteredFeatures, MaxRows) }

\* Material rows: carrier, block, inclusion flag, the four signed primes and
\* the merged delta_N / predicted_noise.
MaxMaterials == 3  \* rows of the material table
Material(element, block, include, primes, dN, noise) ==
    [carrier_element |-> element, carrier_block |-> block,
     include_study04 |-> include, primes |-> primes,
     delta_N |-> dN, predicted_noise |-> noise]
MaterialKinds ==
    { Material("Nb", "d", 1, I4(1, 2, 0, 0), Q(1, 2), One),
      Material("Nb", "f", 1, I4(3, 0, 0, 1), Zero, NaN),
      Material("Al", "p", 1, V4(I(-2), NaN, I(1), I(0)), NaN, Q(1, 4)),
      Material("Al", "p", 0, I4(1, 1, 1, 1), One, One),
      Material("Nb", "p", 1, I4(0, 0, 0, 0), NaN, NaN),
      Material("Ce", NoneId, 1, AllMissing, NaN, NaN) }
MaterialTables == SeqsUpTo(MaterialKinds, MaxMaterials)

-----------------------------------------------------------------------------
(* Specifications                                                           *)

Unset == "unset"

\* The variables of each component, and their values while it is not running.
normVars == <<row, vec>>
engineVars == <<data, catalog, carrier_df, lambda_noise, use_noise, params,
                args, scores, best, outputs, runner, agg_path>>
cliffVars == <<x, y, delta>>
classifierVars == <<X, labels, cv, clf>>
nullVars == <<agg_df, perm_nulls, rot_nulls, stats_json, loop>>
aggregateVars == <<materials, agg_result, carrier_stats>>

NormIdle == row = Unset /\ vec = Unset
EngineIdle ==
    /\ data = Unset /\ catalog = Unset /\ carrier_df = Unset
    /\ lambda_noise = Unset /\ use_noise = Unset /\ params = Unset
    /\ args = Unset /\ scores = Unset /\ best = Unset /\ outputs = Unset
    /\ runner = Unset /\ agg_path = Unset
CliffIdle == x = Unset /\ y = Unset /\ delta = Unset
ClassifierIdle == X = Unset /\ labels = Unset /\ cv = Unset /\ clf = Unset
NullsIdle ==
    /\ agg_df = Unset /\ perm_nulls = Unset /\ rot_nulls = Unset
    /\ stats_json = Unset /\ loop = Unset
AggregateIdle == materials = Unset /\ agg_result = Unset /\ carrier_stats = Unset

\* The prime-vector normalizer on its own.
InitNorm ==
    /\ pc = "norm_start"
    /\ row \in RawVectors
    /\ vec = Unset
    /\ EngineIdle /\ CliffIdle /\ ClassifierIdle /\ NullsIdle /\ AggregateIdle

NormalizePrimes ==
    /\ pc = "norm_start"
    /\ vec' = normalize_primes(row)
    /\ pc' = "norm_done"
    /\ UNCHANGED <<row, engineVars, cliffVars, classifierVars, nullVars,
                   aggregateVars>>

NextNorm == NormalizePrimes
SpecNorm == InitNorm /\ [][NextNorm]_vars

\* The catalog loader on its own.
InitCatalog ==
    /\ pc = "start"
    /\ data \in LoaderFiles
    /\ catalog = Unset /\ carrier_df = Unset
    /\ lambda_noise = Unset /\ use_noise = Unset /\ params = Unset
    /\ args = Unset /\ scores = Unset /\ best = Unset /\ outputs = Unset
    /\ runner = Unset /\ agg_path = Unset
    /\ NormIdle /\ CliffIdle /\ ClassifierIdle /\ NullsIdle /\ AggregateIdle

LoadCatalog ==
    /\ pc = "start"
    /\ catalog' = load_topology_catalog(data)
    /\ pc' = "loaded"
    /\ UNCHANGED <<data, carrier_df, lambda_noise, use_noise, params, args,
                   scores, best, outputs, runner, agg_path>>
    /\ UNCHANGED <<normVars, cliffVars, classifierVars, nullVars, aggregateVars>>

NextCatalog == LoadCatalog
SpecCatalog == InitCatalog /\ [][NextCatalog]_vars

\* The two runners of the simple formulation: the full one scores with the
\* noise term, the e_only one without it.
SimpleRunner(un) ==
    IF un THEN "run_study04_infer_topologies"
    ELSE "run_study04_infer_topologies_e_only"

\* A check that finds the table whatever is on disk.
AggPathExists_always(path) == TRUE

\* agg_path.exists()
AggPathExists(path) == path = "present"

ResonantRunner == "run_study04_resonant_layer_engine"

\* The first step of every topology-inference runner: without the aggregate
\* table it raises FileNotFoundError, otherwise the table is read.
CheckAggPath ==
    /\ pc = "begin"
    /\ pc' = IF AggPathExists(agg_path) THEN "start" ELSE "missing_input"
    /\ UNCHANGED <<engineVars, normVars, cliffVars, classifierVars, nullVars,
                   aggregateVars>>

\* run_study04_infer_topologies*.py: check the aggregate table, load the
\* catalog, then aggregate_costs, then write the two tables and the figures.
InitSimple ==
    /\ pc = "begin"
    /\ data \in EngineFiles
    /\ \/ agg_path = "present" /\ carrier_df \in SimpleTables
       \/ agg_path = "absent" /\ carrier_df = <<>>
    /\ lambda_noise \in SimpleLambdas
    /\ use_noise \in BOOLEAN
    /\ catalog = Unset /\ scores = Unset /\ best = Unset
    /\ params = Unset /\ args = Unset
    /\ runner = SimpleRunner(use_noise)
    /\ outputs = {}
    /\ NormIdle /\ CliffIdle /\ ClassifierIdle /\ NullsIdle /\ AggregateIdle

AggregateCosts ==
    /\ pc = "loaded"
    /\ runner \in {SimpleRunner(TRUE), SimpleRunner(FALSE)}
    /\ LET res == aggregate_costs(carrier_df, catalog, lambda_noise, use_noise)
       IN  /\ scores' = res.scores
           /\ best' = res.best
    /\ outputs' = SimpleOutputs(use_noise)
    /\ pc' = "done"
    /\ UNCHANGED <<data, catalog, carrier_df, lambda_noise, use_noise, params,
                   args, runner, agg_path>>
    /\ UNCHANGED <<normVars, cliffVars, classifierVars, nullVars, aggregateVars>>

NextSimple == CheckAggPath \/ LoadCatalog \/ AggregateCosts
SpecSimple == InitSimple /\ [][NextSimple]_vars

\* run_study04_resonant_layer_engine.py: check the aggregate table, load the
\* catalog, filter the table, infer_topologies, then write the two tables and
\* the figures.
InitResonant ==
    /\ pc = "begin"
    /\ data \in EngineFiles
    /\ \/ agg_path = "present" /\ args = NoFilter /\ carrier_df \in ResonantTables
       \/ agg_path = "present" /\ args \in FilterArgs /\ carrier_df \in FilteredTables
       \/ agg_path = "absent" /\ args \in {NoFilter} \cup FilterArgs /\ carrier_df = <<>>
    /\ runner = ResonantRunner
    /\ params \in ResonantParams
    /\ catalog = Unset /\ scores = Unset /\ best = Unset
    /\ lambda_noise = Unset /\ use_noise = Unset
    /\ outputs = {}
    /\ NormIdle /\ CliffIdle /\ ClassifierIdle /\ NullsIdle /\ AggregateIdle

\* infer_topologies raises when no row is left (lines 114-115); the runner
\* ends there.
InferTopologiesEmpty ==
    /\ pc = "loaded"
    /\ runner = ResonantRunner
    /\ DfEmpty(ScoredTable(carrier_df, args))
    /\ pc' = "error"
    /\ UNCHANGED <<engineVars, normVars, cliffVars, classifierVars, nullVars,
                   aggregateVars>>

InferTopologies ==
    /\ pc = "loaded"
    /\ runner = ResonantRunner
    /\ ~DfEmpty(ScoredTable(carrier_df, args))
    /\ LET res == infer_topologies(ScoredTable(carrier_df, args), catalog, params)
       IN  /\ scores' = res.scores
           /\ best' = res.best
    /\ outputs' = ResonantOutputs
    /\ pc' = "done"
    /\ UNCHANGED <<data, catalog, carrier_df, lambda_noise, use_noise, params,
                   args, runner, agg_path>>
    /\ UNCHANGED <<normVars, cliffVars, classifierVars, nullVars, aggregateVars>>

NextResonant == CheckAggPath \/ LoadCatalog \/ InferTopologiesEmpty \/ InferTopologies
SpecResonant == InitResonant /\ [][NextResonant]_vars

\* The three topology-inference runners side by side, on tables of at most
\* MaxRunnerRows rows.
InitRunners == (InitSimple \/ InitResonant) /\ Len(carrier_df) <= MaxRunnerRows
NextRunners ==
    \/ CheckAggPath
    \/ LoadCatalog
    \/ AggregateCosts
    \/ InferTopologiesEmpty
    \/ InferTopologies
SpecRunners == InitRunners /\ [][NextRunners]_vars

\* cliffs_delta on two arrays.
InitCliff ==
    /\ pc = "cliff_start"
    /\ x \in CliffArrays
    /\ y \in CliffArrays
    /\ delta = Unset
    /\ NormIdle /\ EngineIdle /\ ClassifierIdle /\ NullsIdle /\ AggregateIdle

CliffsDelta ==
    /\ pc = "cliff_start"
    /\ delta' = cliffs_delta(x, y)
    /\ pc' = "cliff_done"
    /\ UNCHANGED <<x, y, normVars, engineVars, classifierVars, nullVars,
                   aggregateVars>>

NextCliff == CliffsDelta
SpecCliff == InitCliff /\ [][NextCliff]_vars

\* evaluate_classifier on a feature matrix and a label vector.
InitClassifier ==
    /\ pc = "clf_start"
    /\ labels \in ClassifierLabels
    /\ \E pat \in FeaturePatterns : X = ClassifierFeatures(labels, pat)
    /\ cv = NoCv
    /\ clf = Unset
    /\ NormIdle /\ EngineIdle /\ CliffIdle /\ NullsIdle /\ AggregateIdle

\* The call returns a ClassifierResult.
EvaluateClassifier ==
    /\ pc = "clf_start"
    /\ \E random_state \in ClassifierSeeds :
          LET res == evaluate_classifier(X, labels, random_state)
          IN  /\ res.error = NoneId
              /\ clf' = res.result
              /\ cv' = res.cv
    /\ pc' = "clf_done"
    /\ UNCHANGED <<X, labels, normVars, engineVars, cliffVars, nullVars,
                   aggregateVars>>

\* The call leaves with the exception of the splitter or of a fit.
EvaluateClassifierRaises ==
    /\ pc = "clf_start"
    /\ \E random_state \in ClassifierSeeds :
          LET res == evaluate_classifier(X, labels, random_state)
          IN  /\ res.error # NoneId
              /\ cv' = res.cv
    /\ pc' = "clf_error"
    /\ UNCHANGED <<X, labels, clf, normVars, engineVars, cliffVars, nullVars,
                   aggregateVars>>

NextClassifier == EvaluateClassifier \/ EvaluateClassifierRaises
SpecClassifier == InitClassifier /\ [][NextClassifier]_vars

\* The two null runners of run_study04_periodic_map.py (lines 115-128), called
\* one after the other, and the pair called a second time on the same inputs.
InitNulls ==
    /\ pc = "nulls_start"
    /\ agg_df \in NullTables
    /\ args \in NullArgs
    /\ perm_nulls = <<>>
    /\ rot_nulls = <<>>
    /\ stats_json = Unset /\ loop = Unset
    /\ data = Unset /\ catalog = Unset /\ carrier_df = Unset
    /\ lambda_noise = Unset /\ use_noise = Unset /\ params = Unset
    /\ scores = Unset /\ best = Unset /\ outputs = Unset
    /\ runner = Unset /\ agg_path = Unset
    /\ NormIdle /\ CliffIdle /\ ClassifierIdle /\ AggregateIdle

RunPermutationNulls ==
    /\ pc \in {"nulls_start", "rot_done"}
    /\ Len(perm_nulls) < 2
    /\ \E res \in run_permutation_nulls(agg_df, args.n_min, args.prime_metric,
                                        args.n_perm, args.random_state) :
          /\ perm_nulls' = Append(perm_nulls, res)
          /\ pc' = IF res.error # NoneId THEN "nulls_error" ELSE "perm_done"
    /\ UNCHANGED <<agg_df, rot_nulls, stats_json, loop, normVars, engineVars,
                   cliffVars, classifierVars, aggregateVars>>

RunRotationNulls ==
    /\ pc = "perm_done"
    /\ \E res \in run_rotation_nulls(agg_df, args.n_min, args.prime_metric,
                                     args.n_rotations, args.random_state) :
          /\ rot_nulls' = Append(rot_nulls, res)
          /\ pc' = IF res.error # NoneId THEN "nulls_error" ELSE "rot_done"
    /\ UNCHANGED <<agg_df, perm_nulls, stats_json, loop, normVars, engineVars,
                   cliffVars, classifierVars, aggregateVars>>

NextNulls == RunPermutationNulls \/ RunRotationNulls
SpecNulls == InitNulls /\ [][NextNulls]_vars

\* The runner that executes: its result list is the one appended to.
Returned(kind, res) ==
    IF kind = "perm"
    THEN perm_nulls' = Append(perm_nulls, res) /\ rot_nulls' = rot_nulls
    ELSE rot_nulls' = Append(rot_nulls, res) /\ perm_nulls' = perm_nulls

\* Lines 63-65 / 111-113: the generator, the real snapshot and the empty
\* sample lists; an exception of the snapshot ends the run.
EnterLoop(kind, ws, s0, real, n_trials) ==
    /\ loop' = LoopFrame(kind, ws, s0, real)
    /\ IF real.error # NoneId
       THEN /\ Returned(kind, RaisedRun(real.error, n_trials, <<>>))
            /\ pc' = "main_error"
       ELSE /\ UNCHANGED <<perm_nulls, rot_nulls>>
            /\ pc' = IF kind = "perm" THEN "perm_loop" ELSE "rot_loop"

\* The step of one iteration; an exception of the snapshot ends the run.
TrialStep(frame, n_trials) ==
    /\ loop' = frame
    /\ IF frame.trials = loop.trials
       THEN /\ Returned(frame.kind,
                        RaisedRun("ValueError", n_trials,
                                  TrialsOf(frame.null_samples, frame.trials)))
            /\ pc' = "main_error"
       ELSE /\ UNCHANGED <<perm_nulls, rot_nulls, pc>>

\* run_study04_periodic_map.py from the block statistics on (lines 107-133):
\* compute_block_statistics, the two null runners statement by statement, then
\* the statistics file.
InitFullRun ==
    /\ pc = "main_stats"
    /\ agg_df \in RunTables
    /\ args \in NullArgs
    /\ perm_nulls = <<>>
    /\ rot_nulls = <<>>
    /\ stats_json = NoneId
    /\ loop = EnteredFrame("none")
    /\ outputs = {}
    /\ data = Unset /\ catalog = Unset /\ carrier_df = Unset
    /\ lambda_noise = Unset /\ use_noise = Unset /\ params = Unset
    /\ scores = Unset /\ best = Unset
    /\ runner = Unset /\ agg_path = Unset
    /\ NormIdle /\ CliffIdle /\ ClassifierIdle /\ AggregateIdle

\* What no step of the full run changes.
mainFixed ==
    <<agg_df, args, data, catalog, carrier_df, lambda_noise, use_noise, params,
      scores, best, runner, agg_path, normVars, cliffVars, classifierVars,
      aggregateVars>>

\* args.random_state: an integer, 0 unless --random-state is given.
SeedOf(given) == CHOOSE random_state \in RandomState(given) : TRUE

\* stats = compute_block_statistics(...); stats_json = serialize(...)
ComputeBlockStatistics ==
    /\ pc = "main_stats"
    /\ LET res == compute_block_statistics(agg_df, args.n_min, args.prime_metric,
                                           SeedOf(args.random_state))
       IN  IF res.error # NoneId
           THEN pc' = "main_error" /\ UNCHANGED stats_json
           ELSE /\ stats_json' = serialize_block_statistics(res.stats)
                /\ pc' = "perm_enter"
    /\ UNCHANGED <<mainFixed, outputs, perm_nulls, rot_nulls, loop>>

\* run_permutation_nulls up to the loop (lines 59-65).
PermEnter ==
    /\ pc = "perm_enter"
    /\ LET ws == prepare_working_set(agg_df, args.n_min, args.prime_metric)
       IN  IF Len(ws.labels) = 0
           THEN /\ Returned("perm", SkippedRun("No elements pass n_min filter.",
                                                args.n_perm))
                /\ loop' = EnteredFrame("perm")
                /\ pc' = "rot_enter"
           ELSE \E s0 \in default_rng(RandomState(args.random_state)) :
                    EnterLoop("perm", ws, s0, metric_snapshot(ws.X, ws.labels),
                              args.n_perm)
    /\ UNCHANGED <<mainFixed, outputs, stats_json>>

\* One iteration of the permutation loop (lines 67-71).
PermTrial ==
    /\ pc = "perm_loop"
    /\ loop.trials < args.n_perm
    /\ \E s \in loop.rng :
          TrialStep(PermIteration(loop, Shuffle(loop.labels, Len(loop.labels), s)),
                    args.n_perm)
    /\ UNCHANGED <<mainFixed, outputs, stats_json>>

\* The summary of run_permutation_nulls (lines 73-84) and its return.
PermSummary ==
    /\ pc = "perm_loop"
    /\ loop.trials = args.n_perm
    /\ Returned("perm", LoopSummary(loop, args.n_perm))
    /\ pc' = IF LoopSummary(loop, args.n_perm).error # NoneId THEN "main_error"
             ELSE "rot_enter"
    /\ UNCHANGED <<mainFixed, outputs, stats_json, loop>>

\* run_rotation_nulls up to the loop (lines 104-113).
RotEnter ==
    /\ pc = "rot_enter"
    /\ IF RotationsDisabled(args.n_rotations)
       THEN /\ Returned("rot", SkippedRun("n_rotations set to 0.",
                                           args.n_rotations))
            /\ loop' = EnteredFrame("rot")
            /\ pc' = "write_stats"
       ELSE LET ws == prepare_working_set(agg_df, args.n_min, args.prime_metric)
            IN  IF Len(ws.labels) = 0
                THEN /\ Returned("rot", SkippedRun("No elements pass n_min filter.",
                                                    args.n_rotations))
                     /\ loop' = EnteredFrame("rot")
                     /\ pc' = "write_stats"
                ELSE \E s0 \in default_rng(RandomState(args.random_state)) :
                         EnterLoop("rot", ws, s0, metric_snapshot(ws.X, ws.labels),
                                   args.n_rotations)
    /\ UNCHANGED <<mainFixed, outputs, stats_json>>

\* One iteration of the rotation loop (lines 115-120).
RotTrial ==
    /\ pc = "rot_loop"
    /\ loop.trials < args.n_rotations
    /\ \E s \in loop.rng :
          TrialStep(RotIteration(loop, random_rotation(s)), args.n_rotations)
    /\ UNCHANGED <<mainFixed, outputs, stats_json>>

\* The summary of run_rotation_nulls (lines 122-133) and its return.
RotSummary ==
    /\ pc = "rot_loop"
    /\ loop.trials = args.n_rotations
    /\ Returned("rot", LoopSummary(loop, args.n_rotations))
    /\ pc' = IF LoopSummary(loop, args.n_rotations).error # NoneId THEN "main_error"
             ELSE "write_stats"
    /\ UNCHANGED <<mainFixed, outputs, stats_json, loop>>

\* stats_json["null_models"] = ...; json.dump(stats_json, f)   (lines 130-133)
WriteStats ==
    /\ pc = "write_stats"
    /\ outputs' = outputs \cup {"study04_block_stats.json"}
    /\ pc' = "main_done"
    /\ UNCHANGED <<mainFixed, stats_json, perm_nulls, rot_nulls, loop>>

NextFullRun ==
    \/ ComputeBlockStatistics
    \/ PermEnter
    \/ PermTrial
    \/ PermSummary
    \/ RotEnter
    \/ RotTrial
    \/ RotSummary
    \/ WriteStats
SpecFullRun == InitFullRun /\ [][NextFullRun]_vars

\* The two per-element aggregations of a material table:
\* run_study04_periodic_map.py (lines 91-98) and prep_study04_layer_data.py.
InitAggregate ==
    /\ pc = "agg_start"
    /\ materials \in MaterialTables
    /\ agg_result = Unset
    /\ carrier_stats = Unset
    /\ outputs = {}
    /\ data = Unset /\ catalog = Unset /\ carrier_df = Unset
    /\ lambda_noise = Unset /\ use_noise = Unset /\ params = Unset
    /\ args = Unset /\ scores = Unset /\ best = Unset
    /\ runner = Unset /\ agg_path = Unset
    /\ NormIdle /\ CliffIdle /\ ClassifierIdle /\ NullsIdle

\* aggregate_element_table, then the table is written unless the call raised.
AggregateElementTable ==
    /\ pc = "agg_start"
    /\ LET res == aggregate_element_table(materials)
       IN  /\ agg_result' = res
           /\ pc' = IF res.error # NoneId THEN "agg_error" ELSE "agg_done"
           /\ outputs' = IF res.error # NoneId THEN outputs
                         ELSE {"periodic_resonance_table.csv"}
    /\ UNCHANGED <<materials, carrier_stats>>
    /\ UNCHANGED <<data, catalog, carrier_df, lambda_noise, use_noise, params,
                   args, scores, best, runner, agg_path>>
    /\ UNCHANGED <<normVars, cliffVars, classifierVars, nullVars>>

\* main of prep_study04_layer_data.py from the merged table on (lines 60-98).
PrepMain ==
    /\ pc = "agg_start"
    /\ carrier_stats' = carrier_stats_of(materials)
    /\ outputs' = {"carrier_aggregate_stats.csv"}
    /\ pc' = "prep_done"
    /\ UNCHANGED <<materials, agg_result>>
    /\ UNCHANGED <<data, catalog, carrier_df, lambda_noise, use_noise, params,
                   args, scores, best, runner, agg_path>>
    /\ UNCHANGED <<normVars, cliffVars, classifierVars, nullVars>>

NextAggregate == AggregateElementTable \/ PrepMain
SpecAggregate == InitAggregate /\ [][NextAggregate]_vars

-----------------------------------------------------------------------------
(* Properties                                                               *)

\* The rows that were scored: one best record each.
Rows == 1..Len(best)
Topos == 1..Len(catalog)
\* The score record of row i and catalog position t.
ScoreOf(i, t) == scores[(i - 1) * Len(catalog) + t]

\* C1: in the simple formulation every score record has C_total >= C_e >= 0.
C1_CostOrder ==
    pc = "done" =>
        \A k \in 1..Len(scores) :
            /\ FGe(scores[k].C_total, scores[k].C_e)
            /\ FGe(scores[k].C_e, Zero)

\* C2: in the simple formulation, with a non-empty catalog, best_topology names
\* a topology whose C_total is the minimum over the catalog for that element,
\* and C_total_min equals that minimum.
C2_BestIsArgMin ==
    (pc = "done" /\ Len(catalog) > 0) =>
        \A i \in Rows :
            /\ \E t \in Topos :
                  /\ ScoreOf(i, t).topology_id = best[i].best_topology
                  /\ FEq(ScoreOf(i, t).C_total, best[i].C_total_min)
            /\ \A t \in Topos : FLe(best[i].C_total_min, ScoreOf(i, t).C_total)

\* C3: in the resonant formulation every reported confidence lies in [0, 1].
C3_ConfidenceRange ==
    pc = "done" =>
        \A i \in Rows :
            /\ FLe(Zero, best[i].confidence)
            /\ FLe(best[i].confidence, One)

\* C4: in the resonant formulation the confidence is exactly 0 when all
\* topologies give the element the same total cost or the catalog is empty.
C4_DegenerateConfidence ==
    pc = "done" =>
        \A i \in Rows :
            (\A t \in Topos : ScoreOf(i, t).C_total = ScoreOf(i, 1).C_total)
                => FEq(best[i].confidence, Zero)

AllPresent(r) == \A p \in PRIME_COLUMNS : ~IsNaN(r[p])
AllMissingIn(r) == \A p \in PRIME_COLUMNS : IsNaN(r[p])
AbsSum(r) == SumTo([p \in PRIME_COLUMNS |-> FAbs(r[p])], 4)

\* C5: for an input with all four components present and a positive sum of
\* absolute values, the normalizer returns non-negative components summing to 1.
C5_NormalizedSimplex ==
    (pc = "norm_done" /\ AllPresent(row) /\ FGt(AbsSum(row), Zero)) =>
        /\ \A p \in PRIME_COLUMNS : FGe(vec[p], Zero)
        /\ FEq(SumTo(vec, 4), One)

C5_Witness ==
    /\ pc = "norm_done"
    /\ row = I4(-1, 1, 0, 1)
    /\ vec = V4(Q(1, 3), Q(1, 3), Zero, Q(1, 3))

\* C6: for an input with all components missing, or with a non-positive sum of
\* absolute values, the normalizer returns exactly (0.25, 0.25, 0.25, 0.25).
C6_DegenerateUniform ==
    (pc = "norm_done" /\ (AllMissingIn(row) \/ FLe(AbsSum(row), Zero))) =>
        vec = Uniform

\* C7: every loaded topology has four non-negative weights that sum to 1,
\* whatever the scale or sign of the raw weights.
C7_WeightsOnSimplex ==
    pc = "loaded" =>
        \A t \in Topos :
            /\ \A p \in PRIME_COLUMNS : FGe(catalog[t].w[p], Zero)
            /\ FEq(SumTo(catalog[t].w, 4), One)

C7_Witness ==
    /\ pc = "loaded"
    /\ Len(data) = 2
    /\ data[1].w = I4(-1, 1, 0, 1)
    /\ catalog[1].w = V4(Q(1, 3), Q(1, 3), Zero, Q(1, 3))
    /\ data[2].w = I4(0, -3, 0, 6)
    /\ catalog[2].w = V4(Zero, Q(1, 3), Zero, Q(2, 3))

\* C8 as stated: an entry whose raw weights are all non-positive gets the
\* uniform weight vector.
C8_NonPositiveUniform ==
    pc = "loaded" =>
        \A t \in Topos :
            (\A p \in PRIME_COLUMNS : FLe(data[t].w[p], Zero))
                => catalog[t].w = Uniform

\* C8 as amended: an entry whose raw weights have a non-positive sum of
\* absolute values (all four are zero) gets the uniform weight vector.
C8_ZeroSumUniform ==
    pc = "loaded" =>
        \A t \in Topos :
            FLe(AbsSum(data[t].w), Zero) => catalog[t].w = Uniform

C8_Witness ==
    /\ pc = "loaded"
    /\ Len(data) = 1
    /\ data[1].w = I4(0, 0, 0, 0)
    /\ catalog[1].w = Uniform

\* C9: Cliff's delta is antisymmetric on non-empty arrays:
\* cliffs_delta(x, y) = -cliffs_delta(y, x).
C9_Antisymmetric ==
    (pc = "cliff_done" /\ Len(x) > 0 /\ Len(y) > 0) =>
        FEq(delta, FNeg(cliffs_delta(y, x)))

C9_Witness ==
    /\ pc = "cliff_done"
    /\ x = <<2, 1>>
    /\ y = <<1>>
    /\ delta = Q(1, 2)
    /\ cliffs_delta(y, x) = Q(-1, 2)

\* Pairs (i, j) with x[i] above, resp. below, y[j].
PairsAbove == {ij \in (1..Len(x)) \X (1..Len(y)) : x[ij[1]] > y[ij[2]]}
PairsBelow == {ij \in (1..Len(x)) \X (1..Len(y)) : x[ij[1]] < y[ij[2]]}

\* C10: on non-empty arrays Cliff's delta is the mean sign of the pairwise
\* differences x_i - y_j, lies in [-1, 1], and has magnitude exactly 1 when
\* every value of x exceeds every value of y.
C10_MeanSign ==
    (pc = "cliff_done" /\ Len(x) > 0 /\ Len(y) > 0) =>
        /\ FEq(delta, Q(Cardinality(PairsAbove) - Cardinality(PairsBelow),
                        Len(x) * Len(y)))
        /\ FLe(I(-1), delta) /\ FLe(delta, One)
        /\ (\A i \in 1..Len(x) : \A j \in 1..Len(y) : x[i] > y[j])
               => FEq(FAbs(delta), One)

C10_Witness ==
    /\ pc = "cliff_done"
    /\ x = <<1, 2>>
    /\ y = <<0>>
    /\ delta = One

\* The positive (d, f) and negative samples of the label vector.
NPositive == Cardinality({i \in 1..Len(labels) : labels[i] \in {"d", "f"}})
NNegative == Len(labels) - NPositive
FewClassesOrSamples == NPositive = 0 \/ NNegative = 0 \/ Len(labels) < 3
NullMetrics ==
    /\ clf.accuracy = NoneVal
    /\ clf.balanced_accuracy = NoneVal
    /\ clf.roc_auc = NoneVal
    /\ clf.roc_curve_points = NoneVal

\* C11: with fewer than 2 classes or fewer than 3 samples evaluate_classifier
\* returns a result whose accuracy, balanced accuracy, ROC-AUC and ROC points
\* are null, builds no cross-validation or model, and still reports the three
\* sample counts and the majority-class baseline (the share of the larger
\* class; null only when there is no sample at all).
C11_SkipGivesNullResult ==
    (pc \in {"clf_done", "clf_error"} /\ FewClassesOrSamples) =>
        /\ pc = "clf_done"
        /\ cv = NoCv
        /\ NullMetrics
        /\ clf.n_samples = Len(labels)
        /\ clf.n_positive = NPositive
        /\ clf.n_negative = NNegative
        /\ clf.baseline_accuracy =
               IF Len(labels) > 0
               THEN Q(IF NPositive >= NNegative THEN NPositive ELSE NNegative,
                      Len(labels))
               ELSE NoneVal

C11_Witness ==
    /\ pc = "clf_done"
    /\ labels = <<"s", "d">>
    /\ cv = NoCv
    /\ NullMetrics
    /\ clf.n_samples = 2 /\ clf.n_positive = 1 /\ clf.n_negative = 1
    /\ clf.baseline_accuracy = Q(1, 2)

\* C12: when evaluate_classifier does not skip it builds leave-one-out for at
\* most 12 samples and otherwise stratified k-fold with
\* k = min(5, positives, negatives), so k never exceeds the smaller class.
C12_CvChoice ==
    (pc \in {"clf_done", "clf_error"} /\ ~FewClassesOrSamples) =>
        /\ Len(labels) <= 12 => cv.kind = "LeaveOneOut"
        /\ Len(labels) > 12 =>
               /\ cv.kind = "StratifiedKFold"
               /\ cv.n_splits \in {5, NPositive, NNegative}
               /\ cv.n_splits <= 5
               /\ cv.n_splits <= NPositive
               /\ cv.n_splits <= NNegative

C12_Witness ==
    /\ pc = "clf_done"
    /\ Len(labels) = 13
    /\ NPositive = 2
    /\ cv = [kind |-> "StratifiedKFold", n_splits |-> 2]
    /\ clf.accuracy # NoneVal

\* C13: evaluate_classifier always returns a ClassifierResult, and a degenerate
\* class split (a single class, fewer than 3 samples, a class too small to be
\* in every training fold) gives null metrics.
C13_NeverRaises ==
    pc \in {"clf_done", "clf_error"} =>
        /\ pc = "clf_done"
        /\ (FewClassesOrSamples \/ NPositive = 1 \/ NNegative = 1) => NullMetrics

\* The runs of the two null runners that returned a summary with statistics.
NullRuns == {perm_nulls[i] : i \in 1..Len(perm_nulls)}
                \cup {rot_nulls[i] : i \in 1..Len(rot_nulls)}
Summaries == {r \in NullRuns : r.error = NoneId /\ r.skipped_reason = NoneId}
Keys == {MetricKeys[i] : i \in 1..Len(MetricKeys)}
\* The null samples of a statistic at least as extreme as its real value.
Extreme(r, key) ==
    {t \in 1..Len(r.samples) :
        FGe(FAbs(r.samples[t][key]), FAbs(r.stats[key].real))}

\* C14 as stated: for both null models and every statistic with a defined real
\* value the p-value is (number of null samples with |null| >= |real|, plus 1)
\* / (n_trials + 1), hence 0 < p <= 1.
C14_EmpiricalP ==
    \A r \in Summaries : \A key \in Keys :
        r.stats[key].real # NoneVal =>
            /\ r.stats[key].p_value
                   = Q(Cardinality(Extreme(r, key)) + 1, r.n_trials + 1)
            /\ FLt(Zero, r.stats[key].p_value)
            /\ FLe(r.stats[key].p_value, One)

\* C14 as amended: the formula holds whenever at least one trial was run; with
\* no trial the p-value is null.
C14_EmpiricalPWithTrials ==
    \A r \in Summaries : \A key \in Keys :
        r.stats[key].real # NoneVal =>
            IF r.n_trials >= 1
            THEN /\ r.stats[key].p_value
                        = Q(Cardinality(Extreme(r, key)) + 1, r.n_trials + 1)
                 /\ FLt(Zero, r.stats[key].p_value)
                 /\ FLe(r.stats[key].p_value, One)
            ELSE r.stats[key].p_value = NoneVal

C14_Witness ==
    \E r \in Summaries :
        /\ r \in {rot_nulls[i] : i \in 1..Len(rot_nulls)}
        /\ r.n_trials = 2
        /\ r.stats["delta_e2_p_vs_df"].real # NoneVal
        /\ Cardinality(Extreme(r, "delta_e2_p_vs_df")) = 1
        /\ r.stats["delta_e2_p_vs_df"].p_value = Q(2, 3)

\* The real value of the statistic equals the absolute value of every one of
\* the n >= 1 null samples.
TiedNull(r, key) ==
    /\ Len(r.samples) >= 1
    /\ r.stats[key].real # NoneVal
    /\ \A t \in 1..Len(r.samples) :
           FEq(r.stats[key].real, FAbs(r.samples[t][key]))

\* C15 as stated: when the real value equals the absolute value of every one
\* of the n null samples, the p-value is exactly 1/(n+1).
C15_TiedNullMinimalP ==
    \A r \in Summaries : \A key \in Keys :
        TiedNull(r, key) => r.stats[key].p_value = Q(1, Len(r.samples) + 1)

\* C15 as amended: in that case every sample counts as at least as extreme and
\* the p-value is exactly (n+1)/(n+1) = 1.
C15_TiedNullGivesOne ==
    \A r \in Summaries : \A key \in Keys :
        TiedNull(r, key) => r.stats[key].p_value = One

C15_Witness ==
    \E r \in Summaries :
        /\ Len(r.samples) = 2
        /\ TiedNull(r, "delta_e5_df_vs_sp")
        /\ r.stats["delta_e5_df_vs_sp"].real = Zero
        /\ r.stats["delta_e5_df_vs_sp"].p_value = One

\* C16: two calls of a null runner on the same table with the same n_min,
\* prime metric, trial count and seed (given or defaulted) return identical
\* summaries and identical samples, trial by trial.
C16_Deterministic ==
    /\ \A i, j \in 1..Len(perm_nulls) : perm_nulls[i] = perm_nulls[j]
    /\ \A i, j \in 1..Len(rot_nulls) : rot_nulls[i] = rot_nulls[j]

C16_Witness ==
    /\ args.random_state = {}
    /\ Len(perm_nulls) = 2 /\ Len(rot_nulls) = 2
    /\ perm_nulls[1] \in Summaries /\ rot_nulls[1] \in Summaries
    /\ Len(perm_nulls[1].samples) = 2
    /\ perm_nulls[1].samples[1] # perm_nulls[1].samples[2]
    /\ perm_nulls[2].samples = perm_nulls[1].samples
    /\ rot_nulls[1].samples[1] # rot_nulls[1].samples[2]
    /\ rot_nulls[2] = rot_nulls[1]

\* The row passes the block filter and the element filter of the run.
Matches(r) ==
    /\ args.families = {} \/ r.block \in args.families
    /\ args.elements = {} \/ r.carrier_element \in args.elements
NoRowLeft == \A i \in 1..Len(carrier_df) : ~Matches(carrier_df[i])

\* C17: when the filters leave no row the resonant runner ends with an error,
\* with no score table, no best-assignment table and no file written; a run
\* that completes has scored at least one row.
C17_EmptyFilterIsFatal ==
    /\ (pc \in {"done", "error"} /\ NoRowLeft) =>
           /\ pc = "error"
           /\ outputs = {}
           /\ scores = Unset
           /\ best = Unset
    /\ pc = "done" => Len(best) >= 1

C17_Witness ==
    /\ pc = "error"
    /\ Len(carrier_df) = 2
    /\ args = [elements |-> {"Al", "Zr"}, families |-> {"d"}]
    /\ outputs = {}
    /\ scores = Unset /\ best = Unset

\* Two included materials (flag set, block present, valid primes) of one
\* carrier element carry different blocks.
BlockConflict ==
    \E i, j \in 1..Len(materials) :
        /\ IncludedRow(materials[i]) /\ PrepIncluded(materials[i])
        /\ IncludedRow(materials[j]) /\ PrepIncluded(materials[j])
        /\ materials[i].carrier_element = materials[j].carrier_element
        /\ materials[i].carrier_block # materials[j].carrier_block

\* C18: when the included materials of one carrier element carry more than one
\* block value the per-element aggregation ends with an error and writes no
\* aggregate table.
C18_BlockConflictIsFatal ==
    (pc \in {"agg_done", "agg_error", "prep_done"} /\ BlockConflict) =>
        /\ pc = "agg_error"
        /\ outputs = {}

\* The working set of the null runners and the statistics undefined on it.
WorkingLabels == prepare_working_set(agg_df, args.n_min, args.prime_metric).labels
CountOf(blocks) ==
    Cardinality({i \in 1..Len(WorkingLabels) : WorkingLabels[i] \in blocks})
Undefined(key) ==
    CASE key = "delta_e2_p_vs_df" -> CountOf({"p"}) = 0 \/ CountOf({"d", "f"}) = 0
      [] key = "classifier_accuracy" ->
             \/ CountOf({"d", "f"}) = 0
             \/ CountOf({"d", "f"}) = Len(WorkingLabels)
             \/ Len(WorkingLabels) < 3
      [] OTHER -> CountOf({"d", "f"}) = 0 \/ CountOf({"s", "p"}) = 0

\* C19: when a tracked statistic is undefined on a non-empty working set the
\* null runners still return a summary, with null real value, p-value and
\* z-score for that statistic.
C19_UndefinedStatIsNull ==
    \A r \in NullRuns : \A key \in Keys :
        (r.skipped_reason = NoneId /\ Undefined(key)) =>
            /\ r.error = NoneId
            /\ r.stats[key].real = NoneVal
            /\ r.stats[key].p_value = NoneVal
            /\ r.stats[key].z_score = NoneVal

\* C20: in the resonant formulation every score has
\* C_total = C_e + lambda_N * C_N + lambda_xi * C_xi, and with a non-empty
\* catalog the best topology of every element is one whose C_total is the
\* minimum over the catalog, C_total_min being that minimum.
C20_ResonantArgMin ==
    pc = "done" =>
        /\ \A k \in 1..Len(scores) :
               FEq(scores[k].C_total,
                   FAdd(FAdd(scores[k].C_e, FMul(params.lambda_N, scores[k].C_N)),
                        FMul(params.lambda_xi, scores[k].C_xi)))
        /\ Len(catalog) > 0 =>
               \A i \in Rows :
                   /\ \E t \in Topos :
                         /\ ScoreOf(i, t).topology_id = best[i].best_topology
                         /\ FEq(ScoreOf(i, t).C_total, best[i].C_total_min)
                   /\ \A t \in Topos :
                         FLe(best[i].C_total_min, ScoreOf(i, t).C_total)

C20_Witness ==
    /\ pc = "done"
    /\ Len(catalog) = 3
    /\ \E i \in Rows :
          /\ best[i].best_topology = "TETRA_PACK"
          /\ FLt(best[i].C_total_min, ScoreOf(i, 1).C_total)
          /\ FLt(best[i].C_total_min, ScoreOf(i, 2).C_total)

\* The score record of row i for the topology named id, if the catalog has it.
ScoresNamed(i, id) == {t \in Topos : ScoreOf(i, t).topology_id = id}

\* C21 (simple formulation): with a non-empty catalog the C_e_min and
\* C_total_min of every best-assignment row are the C_e and C_total of the
\* score record of the topology named in best_topology.
C21_SimpleTermsOfWinner ==
    (pc = "done" /\ Len(catalog) > 0) =>
        \A i \in Rows : \E t \in ScoresNamed(i, best[i].best_topology) :
            /\ best[i].C_total_min = ScoreOf(i, t).C_total
            /\ best[i].C_e_min = ScoreOf(i, t).C_e

\* C21 (resonant formulation): C_total_min, C_e_min, C_N_min, C_xi_min and
\* A_best of every best-assignment row are the terms of the score record of
\* the topology named in best_topology.
C21_ResonantTermsOfWinner ==
    (pc = "done" /\ Len(catalog) > 0) =>
        \A i \in Rows : \E t \in ScoresNamed(i, best[i].best_topology) :
            /\ best[i].C_total_min = ScoreOf(i, t).C_total
            /\ best[i].C_e_min = ScoreOf(i, t).C_e
            /\ best[i].C_N_min = ScoreOf(i, t).C_N
            /\ best[i].C_xi_min = ScoreOf(i, t).C_xi
            /\ best[i].A_best = ScoreOf(i, t).A_T

\* C22: a topology-inference runner started without the aggregate table ends
\* with FileNotFoundError at its first step: the catalog is never loaded, no
\* element is scored and no file is written.
C22_MissingTableIsFatal ==
    agg_path = "absent" =>
        /\ pc \in {"begin", "missing_input"}
        /\ catalog = Unset
        /\ scores = Unset
        /\ best = Unset
        /\ outputs = {}

C22_Witness ==
    /\ agg_path = "absent"
    /\ pc = "missing_input"
    /\ runner = SimpleRunner(FALSE)
    /\ Len(data) = 3
    /\ catalog = Unset /\ scores = Unset /\ best = Unset
    /\ outputs = {}

\* The observed fingerprint of scored row i and the weights of topology t.
ObsOf(i) == prime_vector(ScoredTable(carrier_df, args)[i])
ObservedIn(e) == {p \in PRIME_COLUMNS : ~IsNaN(e[p])}
\* The sum of f over the components in S.
RECURSIVE SumOver(_, _)
SumOver(f, S) ==
    IF S = {} THEN Zero
    ELSE LET p == CHOOSE q \in S : TRUE
         IN  FAdd(f[p], SumOver(f, S \ {p}))
DotOver(a, b, S) == SumOver([p \in PRIME_COLUMNS |-> FMul(a[p], b[p])], S)
\* The sum of squared standardized residuals of amplitude a over S.
ResidualCost(e, w, a, sigma_e, S) ==
    SumOver([p \in PRIME_COLUMNS |->
                FSq(FDiv(FSub(e[p], FMul(a, w[p])), sigma_e))], S)
LeastSquaresA(e, w, S) ==
    IF FLe(DotOver(w, w, S), Zero) THEN Zero
    ELSE FDiv(DotOver(e, w, S), DotOver(w, w, S))
Amplitudes == {Q(n, d) : n \in -4..4, d \in 1..4}

\* The fit reported for (row i, topology t) is the closed-form least-squares
\* fit over the observed components, and no amplitude gives a smaller C_e.
IsLeastSquaresFit(i, t) ==
    /\ ScoreOf(i, t).A_T
           = LeastSquaresA(ObsOf(i), catalog[t].w, ObservedIn(ObsOf(i)))
    /\ ScoreOf(i, t).C_e
           = ResidualCost(ObsOf(i), catalog[t].w, ScoreOf(i, t).A_T,
                          params.sigma_e, ObservedIn(ObsOf(i)))
    /\ \A a \in Amplitudes :
           FLe(ScoreOf(i, t).C_e,
               ResidualCost(ObsOf(i), catalog[t].w, a, params.sigma_e,
                            ObservedIn(ObsOf(i))))

\* C23: for every observed fingerprint vector and topology weight vector the
\* fitted amplitude is dot(obs, w) / dot(w, w) over the observed components
\* (0 when that denominator is non-positive), C_e is the residual cost of that
\* amplitude, and no other amplitude gives a smaller C_e.
C23_LeastSquaresAmplitude ==
    pc = "done" => \A i \in Rows : \A t \in Topos : IsLeastSquaresFit(i, t)

\* The same for the rows with at least one observed component.
C23_FitOfObservedRows ==
    pc = "done" =>
        \A i \in Rows : \A t \in Topos :
            ObservedIn(ObsOf(i)) # {} => IsLeastSquaresFit(i, t)

\* Some but not all of the four components of the vector are missing.
PartlyMissing(e) == ObservedIn(e) # {} /\ ObservedIn(e) # PRIME_COLUMNS

\* C24 (simple formulation): for a row with some but not all fingerprint
\* components missing, the C_e of every topology is a finite number.
C24_SimpleMasksMissing ==
    pc = "done" =>
        \A i \in Rows : \A t \in Topos :
            PartlyMissing(carrier_df[i].mean) => IsNum(ScoreOf(i, t).C_e)

\* C24 (resonant formulation): for such a row the C_e of every topology is
\* finite and is the residual cost over the observed components alone.
C24_ResonantMasksMissing ==
    pc = "done" =>
        \A i \in Rows : \A t \in Topos :
            PartlyMissing(ObsOf(i)) =>
                /\ IsNum(ScoreOf(i, t).C_e)
                /\ ScoreOf(i, t).C_e
                       = ResidualCost(ObsOf(i), catalog[t].w, ScoreOf(i, t).A_T,
                                      params.sigma_e, ObservedIn(ObsOf(i)))

\* The finite null samples a completed run accumulated for one statistic.
FiniteSamples(r, key) == FiniteOf(SamplesOf(r.samples, key), Len(r.samples))

\* The sample variance (n - 1 in the denominator) of two or more values.
SampleVariance(arr) ==
    FDiv(NpSum([i \in 1..Len(arr) |-> FSq(FSub(arr[i], NpMean(arr)))]),
         I(Len(arr) - 1))

\* The z-score is undefined: fewer than two finite null samples, an undefined
\* real value, or a null distribution without variance.
ZUndefined(r, key) ==
    \/ Len(FiniteSamples(r, key)) < 2
    \/ r.stats[key].real = NoneVal
    \/ SampleVariance(FiniteSamples(r, key)) = Zero

\* C28: the z-score of every statistic of a completed null run is null when it
\* is undefined (fewer than 2 finite null samples, an undefined real value or
\* a zero-variance null distribution) and otherwise (real - null_mean) /
\* null_std with the sample standard deviation.
C28_ZScoreNullWhenUndefined ==
    \A r \in NullRuns : \A key \in Keys :
        (r.error = NoneId /\ r.skipped_reason = NoneId) =>
            IF ZUndefined(r, key) THEN r.stats[key].z_score = NoneVal
            ELSE r.stats[key].z_score =
                     [k |-> "zscore",
                      n |-> FSub(r.stats[key].real, NpMean(FiniteSamples(r, key))),
                      d |-> SampleVariance(FiniteSamples(r, key))]

\* C28 without the zero-variance case: null for fewer than 2 finite samples or
\* an undefined real value, the quotient when the null samples vary.
C28_ZScoreOfVaryingNull ==
    \A r \in NullRuns : \A key \in Keys :
        (r.error = NoneId /\ r.skipped_reason = NoneId) =>
            /\ (Len(FiniteSamples(r, key)) < 2 \/ r.stats[key].real = NoneVal) =>
                   r.stats[key].z_score = NoneVal
            /\ ~ZUndefined(r, key) =>
                   r.stats[key].z_score =
                       [k |-> "zscore",
                        n |-> FSub(r.stats[key].real, NpMean(FiniteSamples(r, key))),
                        d |-> SampleVariance(FiniteSamples(r, key))]

\* The orders a catalog of n entries can be put in.
Orders(n) == {p \in [1..n -> 1..n] : \A a, b \in 1..n : p[a] = p[b] => a = b}
Reordered(cat, p) == [t \in 1..Len(cat) |-> cat[p[t]]]

\* The engine of the running formulation on the same rows and another catalog.
IsSimpleRun == runner \in {SimpleRunner(TRUE), SimpleRunner(FALSE)}
RunWith(cat) ==
    IF IsSimpleRun
    THEN aggregate_costs(carrier_df, cat, lambda_noise, use_noise)
    ELSE infer_topologies(ScoredTable(carrier_df, args), cat, params)

\* The topologies of row i that no topology undercuts, on the total cost and on
\* the fingerprint cost; rows whose costs are all NaN have every topology here.
MinimalTotal(i) ==
    {t \in Topos : \A u \in Topos : ~FLt(ScoreOf(i, u).C_total, ScoreOf(i, t).C_total)}
MinimalCe(i) ==
    {t \in Topos : \A u \in Topos : ~FLt(ScoreOf(i, u).C_e, ScoreOf(i, t).C_e)}
FirstOf(S) == CHOOSE t \in S : \A u \in S : t <= u

\* Reordering the catalog by p moves every score record and keeps the best
\* topology of row i among the minimal ones.
SameCostsUnder(p, re, i) ==
    \A t \in Topos : re.scores[(i - 1) * Len(catalog) + t] = ScoreOf(i, p[t])
BestStaysMinimal(re, i) ==
    /\ re.best[i].best_topology \in {catalog[t].topology_id : t \in MinimalTotal(i)}
    /\ IsSimpleRun =>
           re.best[i].best_topology_e_only
               \in {catalog[t].topology_id : t \in MinimalCe(i)}

\* C29: in both formulations the best topology of every element is the first
\* in catalog order among those of minimum cost, and under every reordering of
\* the catalog each (element, topology) score record is unchanged and the best
\* topology stays among the tied minima.
C29_CatalogOrderBreaksTies ==
    (pc = "done" /\ Len(catalog) > 0) =>
        \A i \in Rows :
            /\ best[i].best_topology = catalog[FirstOf(MinimalTotal(i))].topology_id
            /\ IsSimpleRun =>
                   best[i].best_topology_e_only
                       = catalog[FirstOf(MinimalCe(i))].topology_id
            /\ \A p \in Orders(Len(catalog)) :
                   /\ SameCostsUnder(p, RunWith(Reordered(catalog, p)), i)
                   /\ BestStaysMinimal(RunWith(Reordered(catalog, p)), i)

\* Two topologies tie for the finite minimum of a row, the first of them is
\* reported, and the reversed catalog reports the other one.
C29_Witness ==
    /\ pc = "done"
    /\ Len(catalog) = 3
    /\ runner = ResonantRunner
    /\ \E i \in Rows :
          /\ Cardinality(MinimalTotal(i)) >= 2
          /\ best[i].C_total_min.k = "num"
          /\ \A t \in MinimalTotal(i) : FEq(ScoreOf(i, t).C_total, best[i].C_total_min)
          /\ RunWith(Reordered(catalog, <<3, 2, 1>>)).best[i].best_topology
                 # best[i].best_topology

\* The three canonical comparisons: statistic, test, component and groups.
Comparisons ==
    { [key |-> "delta_e2_p_vs_df", test |-> "p_vs_df_e2", col |-> 1,
       a |-> {"p"}, b |-> {"d", "f"}],
      [key |-> "delta_e5_df_vs_sp", test |-> "df_vs_sp_e5", col |-> 3,
       a |-> {"d", "f"}, b |-> {"s", "p"}],
      [key |-> "delta_e7_df_vs_sp", test |-> "df_vs_sp_e7", col |-> 4,
       a |-> {"d", "f"}, b |-> {"s", "p"}] }

\* The pairs (i, j) of a comparison on a matrix and its labels: i in the first
\* group, j in the second; rows of other blocks take no part.
GroupRows(lbls, blocks) == {i \in 1..Len(lbls) : lbls[i] \in blocks}
GroupPairs(lbls, c) == GroupRows(lbls, c.a) \X GroupRows(lbls, c.b)
PairsWon(M, lbls, c) ==
    Cardinality({ij \in GroupPairs(lbls, c) : M[ij[1]][c.col] > M[ij[2]][c.col]})
PairsLost(M, lbls, c) ==
    Cardinality({ij \in GroupPairs(lbls, c) : M[ij[1]][c.col] < M[ij[2]][c.col]})

\* Cliff's delta of a comparison, NaN when a group is empty.
GroupDelta(M, lbls, c) ==
    IF GroupPairs(lbls, c) = {} THEN NaN
    ELSE Q(PairsWon(M, lbls, c) - PairsLost(M, lbls, c),
           Cardinality(GroupPairs(lbls, c)))

WorkingX == prepare_working_set(agg_df, args.n_min, args.prime_metric).X

\* compute_block_statistics has returned.
StatsComputed ==
    /\ pc # "main_stats"
    /\ pc = "main_error" => Len(perm_nulls) > 0

\* A null runner is in its loop or has left it with a summary.
SnapshotTaken == pc # "main_error" /\ loop.snapshots >= 1

\* C25: compute_block_statistics and every statistic snapshot of the null
\* models compare p against d, f on e2 and d, f against s, p on e5 and on e7;
\* the group sizes and Cliff's deltas are those of exactly these rows, rows of
\* other blocks contributing nothing.
C25_CanonicalGroups ==
    \A c \in Comparisons :
        /\ StatsComputed =>
               /\ stats_json.tests[c.test].group_sizes =
                      [a |-> Cardinality(GroupRows(WorkingLabels, c.a)),
                       b |-> Cardinality(GroupRows(WorkingLabels, c.b))]
               /\ stats_json.tests[c.test].delta =
                      Maybe(GroupDelta(WorkingX, WorkingLabels, c))
        /\ SnapshotTaken =>
               /\ loop.real_metrics[c.key] = GroupDelta(WorkingX, WorkingLabels, c)
               /\ loop.trials >= 1 =>
                      loop.null_samples[c.key][loop.trials] =
                          GroupDelta(loop.snap_X, loop.snap_labels, c)

\* The full run on the thirteen-element table: one p element against eleven d
\* elements on e2, the s element left out, and a permutation trial done.
C25_Witness ==
    /\ pc = "main_done"
    /\ agg_df = LargeTable
    /\ stats_json.n_elements_robust = Len(LargeTable)
    /\ stats_json.tests["p_vs_df_e2"].group_sizes = [a |-> 1, b |-> 11]
    /\ stats_json.tests["p_vs_df_e2"].delta.k = "num"
    /\ loop.kind = "rot" /\ loop.trials >= 1
    /\ Len(perm_nulls) = 1 /\ perm_nulls[1].n_trials >= 1

\* How often a block occurs among labels.
BlockCountIn(lbls, b) == Cardinality({i \in 1..Len(lbls) : lbls[i] = b})
SameBlockCounts(lbls1, lbls2) ==
    /\ Len(lbls1) = Len(lbls2)
    /\ \A b \in {lbls1[i] : i \in 1..Len(lbls1)} \cup {lbls2[i] : i \in 1..Len(lbls2)} :
           BlockCountIn(lbls1, b) = BlockCountIn(lbls2, b)

\* run_permutation_nulls is past its emptiness test, in the loop or after it.
InPermRun == loop.kind = "perm" /\ loop.rng # {}

\* C26: while run_permutation_nulls runs on a non-empty working set every
\* tracked statistic holds as many null samples as trials were completed, at
\* most n_perm and exactly n_perm once the summary is built; the labels of
\* every trial have the block counts of the original labels, and the feature
\* matrix is the one of the working set throughout.
C26_PermutationLoop ==
    /\ InPermRun =>
           /\ \A key \in Keys : Len(loop.null_samples[key]) = loop.trials
           /\ loop.trials <= args.n_perm
           /\ pc = "rot_enter" => loop.trials = args.n_perm
           /\ loop.X = WorkingX
           /\ loop.snap_X = WorkingX
           /\ loop.labels = WorkingLabels
           /\ SameBlockCounts(loop.snap_labels, WorkingLabels)
    /\ \A i \in 1..Len(perm_nulls) :
           (perm_nulls[i].error = NoneId /\ perm_nulls[i].skipped_reason = NoneId) =>
               /\ Len(perm_nulls[i].samples) = args.n_perm
               /\ perm_nulls[i].n_trials = args.n_perm

\* Two permutation trials are done on a four-element table, the second with
\* labels in another order than the original.
C26_Witness ==
    /\ pc = "perm_loop"
    /\ InPermRun
    /\ Len(loop.labels) = 4
    /\ loop.trials = 2
    /\ args.n_perm = 2
    /\ loop.snap_labels # loop.labels
    /\ \A key \in Keys : Len(loop.null_samples[key]) = 2

\* run_rotation_nulls has been entered.
InRotRun == loop.kind = "rot"

\* With a rotation count of 0 or less run_rotation_nulls has returned the
\* skipped marker, having built no generator and computed no snapshot.
DisabledRotationSkips ==
    (InRotRun /\ args.n_rotations <= 0) =>
        /\ loop.rng = {}
        /\ loop.snapshots = 0
        /\ loop.trials = 0
        /\ pc \in {"write_stats", "main_done"}
        /\ Len(rot_nulls) = 1
        /\ rot_nulls[1].skipped_reason = "n_rotations set to 0."
        /\ rot_nulls[1].samples = <<>>

\* C27 as stated: a rotation count of 0 or less disables the rotation null
\* without a random draw or a statistic, and with a positive count the runner
\* has run exactly that many trials when it returns, each on the original
\* labels.
C27_RotationCountAsStated ==
    /\ DisabledRotationSkips
    /\ (InRotRun /\ args.n_rotations > 0 /\ pc \in {"write_stats", "main_done"}) =>
           /\ loop.trials = args.n_rotations
           /\ loop.snap_labels = WorkingLabels

\* C27 as amended: a rotation count of 0 or less disables the rotation null
\* without a random draw or a statistic; with a positive count an empty
\* working set is skipped without any trial either, and on a non-empty working
\* set the runner never runs more than that many trials, every trial is on the
\* original labels, and it returns a summary only after exactly that many.
C27_RotationCount ==
    /\ DisabledRotationSkips
    /\ (InRotRun /\ args.n_rotations > 0 /\ Len(WorkingLabels) = 0) =>
           /\ loop.rng = {}
           /\ loop.snapshots = 0
           /\ loop.trials = 0
           /\ Len(rot_nulls) = 1
           /\ rot_nulls[1].skipped_reason = "No elements pass n_min filter."
    /\ (InRotRun /\ args.n_rotations > 0 /\ Len(WorkingLabels) > 0) =>
           /\ loop.rng # {}
           /\ loop.trials <= args.n_rotations
           /\ loop.snapshots >= loop.trials + 1
           /\ \A key \in Keys : Len(loop.null_samples[key]) = loop.trials
           /\ loop.labels = WorkingLabels
           /\ loop.snap_labels = WorkingLabels
           /\ pc \in {"write_stats", "main_done"} =>
                  /\ loop.trials = args.n_rotations
                  /\ Len(rot_nulls) = 1
                  /\ Len(rot_nulls[1].samples) = args.n_rotations

\* The run has ended after two rotation trials on a non-empty working set, the
\* last on a matrix other than the original and on the original labels.
C27_Witness ==
    /\ pc = "main_done"
    /\ InRotRun
    /\ args.n_rotations = 2
    /\ loop.trials = 2
    /\ loop.snap_X # loop.X
    /\ loop.snap_labels = loop.labels
    /\ rot_nulls[1].skipped_reason = NoneId
    /\ Len(rot_nulls[1].samples) = 2

\* The summaries the null runners returned report, as their real values, the
\* Cliff's deltas of the block statistics.
RealDeltasMatch ==
    \A r \in Summaries : \A c \in Comparisons :
        r.stats[c.key].real = stats_json.tests[c.test].delta

\* C30: in a full run the real value of each null-model summary equals the
\* observed value of the block statistics, for the three Cliff's deltas and
\* for classifier accuracy.
C30_RealMatchesStats ==
    /\ RealDeltasMatch
    /\ \A r \in Summaries :
           r.stats["classifier_accuracy"].real = stats_json.classifier.accuracy

\* C30 for the seed the snapshot uses: the accuracies agree when the run's
\* random_state is 0 or the classifier uses leave-one-out.
C30_RealMatchesStatsUnseeded ==
    /\ RealDeltasMatch
    /\ \A r \in Summaries :
           (SeedOf(args.random_state) = 0 \/ r.n_elements <= 12) =>
               r.stats["classifier_accuracy"].real = stats_json.classifier.accuracy

====
